---------------------------- MODULE Spec2Model ----------------------------
(***************************************************************************)
(* A model of the gosec analysis engine (cosmos/gosec):                    *)
(*   - the Analyzer visitor core: LoadRules, Check, Visit, ignore;         *)
(*   - the generated-file filter filterOutGeneratedGoFiles, with its       *)
(*     producer, workers and consumer;                                     *)
(*   - the sdk rules as functions of the node they are given:              *)
(*     integerOverflowCheck, timeNowCheck, mapRanging.                     *)
(* Text (comments, paths, file contents, type names) is a sequence of      *)
(* one-character strings, so that substring search, prefixes and the two   *)
(* regular expressions are computed and not assumed.                       *)
(***************************************************************************)
EXTENDS Integers, Sequences, FiniteSets, TLC

VARIABLES
    gosec,     \* the Analyzer: ignoreNosec, config, ruleset, context, issues, stats
    pkg,       \* the package handed to Check: its syntax files, in loader order
    walk,      \* where Check and ast.Walk are: pc, file index, stack of entered nodes
    matched,   \* history: the rule.Match calls made so far, <<file, node, rule ID>>
    is32Bit,   \* the build constant is32Bit of package sdk
    flt,       \* one call of filterOutGeneratedGoFiles: channels, goroutines, result
    rule       \* one call of a rule's Match on its own: the node and what it returned

vars == <<gosec, pkg, walk, matched, is32Bit, flt, rule>>

-----------------------------------------------------------------------------
(* Text.                                                                   *)

Chars(s) ==
    CASE s = "#nosec" -> <<"#", "n", "o", "s", "e", "c">>
      [] s = "#skip" -> <<"#", "s", "k", "i", "p">>
      [] s = "#nosec G702" -> <<"#", "n", "o", "s", "e", "c", " ", "G", "7", "0", "2">>
      [] s = "#nosec G706" -> <<"#", "n", "o", "s", "e", "c", " ", "G", "7", "0", "6">>
      [] s = "#skip G702" -> <<"#", "s", "k", "i", "p", " ", "G", "7", "0", "2">>
      [] s = "fixme" -> <<"f", "i", "x", "m", "e">>
      [] s = "G702" -> <<"G", "7", "0", "2">>
      [] s = "G706" -> <<"G", "7", "0", "6">>
      [] s = "/p/a.go" -> <<"/", "p", "/", "a", ".", "g", "o">>
      [] s = "/p/gen.go" -> <<"/", "p", "/", "g", "e", "n", ".", "g", "o">>
      [] s = "/p/late.go" -> <<"/", "p", "/", "l", "a", "t", "e", ".", "g", "o">>
      [] s = "/p/testutil/t.go" -> <<"/", "p", "/", "t", "e", "s", "t", "u", "t", "i", "l", "/", "t", ".", "g", "o">>
      [] s = "/p/b.c" -> <<"/", "p", "/", "b", ".", "c">>
      [] s = "/p/x.pb.go" -> <<"/", "p", "/", "x", ".", "p", "b", ".", "g", "o">>
      [] s = "/p/missing.go" -> <<"/", "p", "/", "m", "i", "s", "s", "i", "n", "g", ".", "g", "o">>
      [] s = "testutil" -> <<"t", "e", "s", "t", "u", "t", "i", "l">>
      [] s = ".go" -> <<".", "g", "o">>
      [] s = ".pb.go" -> <<".", "p", "b", ".", "g", "o">>
      [] s = "int" -> <<"i", "n", "t">>
      [] s = "uint" -> <<"u", "i", "n", "t">>
      [] s = "int8" -> <<"i", "n", "t", "8">>
      [] s = "int16" -> <<"i", "n", "t", "1", "6">>
      [] s = "int32" -> <<"i", "n", "t", "3", "2">>
      [] s = "int64" -> <<"i", "n", "t", "6", "4">>
      [] s = "uint8" -> <<"u", "i", "n", "t", "8">>
      [] s = "uint16" -> <<"u", "i", "n", "t", "1", "6">>
      [] s = "uint32" -> <<"u", "i", "n", "t", "3", "2">>
      [] s = "uint64" -> <<"u", "i", "n", "t", "6", "4">>
      [] s = "uintptr" -> <<"u", "i", "n", "t", "p", "t", "r">>
      [] s = "float64" -> <<"f", "l", "o", "a", "t", "6", "4">>
      [] s = "string" -> <<"s", "t", "r", "i", "n", "g">>
      [] s = "/p/ok" -> <<"/", "p", "/", "o", "k">>
      [] s = "/p/tagged" -> <<"/", "p", "/", "t", "a", "g", "g", "e", "d">>
      [] s = "/p/mixed" -> <<"/", "p", "/", "m", "i", "x", "e", "d">>
      [] s = "/p/gone" -> <<"/", "p", "/", "g", "o", "n", "e">>
      [] s = "/p/two" -> <<"/", "p", "/", "t", "w", "o">>
      [] s = "/p/drv" -> <<"/", "p", "/", "d", "r", "v">>
      [] s = "/p/errs" -> <<"/", "p", "/", "e", "r", "r", "s">>
      [] s = "/p/badpos" -> <<"/", "p", "/", "b", "a", "d", "p", "o", "s">>
      [] s = "importing dir " -> <<"i", "m", "p", "o", "r", "t", "i", "n", "g", " ", "d", "i", "r", " ">>
      [] s = "loading files from package " -> <<"l", "o", "a", "d", "i", "n", "g", " ", "f", "i", "l", "e", "s", " ", "f", "r", "o", "m", " ", "p", "a", "c", "k", "a", "g", "e", " ">>
      [] s = ": " -> <<":", " ">>
      [] s = "no buildable Go source files in" -> <<"n", "o", " ", "b", "u", "i", "l", "d", "a", "b", "l", "e", " ", "G", "o", " ", "s", "o", "u", "r", "c", "e", " ", "f", "i", "l", "e", "s", " ", "i", "n">>
      [] s = "no buildable Go source files in /p/tagged" -> <<"n", "o", " ", "b", "u", "i", "l", "d", "a", "b", "l", "e", " ", "G", "o", " ", "s", "o", "u", "r", "c", "e", " ", "f", "i", "l", "e", "s", " ", "i", "n", " ", "/", "p", "/", "t", "a", "g", "g", "e", "d">>
      [] s = "found packages a (a.go) and b (b.go) in /p/two" -> <<"f", "o", "u", "n", "d", " ", "p", "a", "c", "k", "a", "g", "e", "s", " ", "a", " ", "(", "a", ".", "g", "o", ")", " ", "a", "n", "d", " ", "b", " ", "(", "b", ".", "g", "o", ")", " ", "i", "n", " ", "/", "p", "/", "t", "w", "o">>
      [] s = "go list: exit status 1" -> <<"g", "o", " ", "l", "i", "s", "t", ":", " ", "e", "x", "i", "t", " ", "s", "t", "a", "t", "u", "s", " ", "1">>
      [] s = "e.go:5:1" -> <<"e", ".", "g", "o", ":", "5", ":", "1">>
      [] s = "e.go:2:3" -> <<"e", ".", "g", "o", ":", "2", ":", "3">>
      [] s = "e.go:2:1" -> <<"e", ".", "g", "o", ":", "2", ":", "1">>
      [] s = "b.go:7:2" -> <<"b", ".", "g", "o", ":", "7", ":", "2">>
      [] s = "b.go:4:1" -> <<"b", ".", "g", "o", ":", "4", ":", "1">>
      [] s = "b.go:x" -> <<"b", ".", "g", "o", ":", "x">>
      [] s = " undefined: x " -> <<" ", "u", "n", "d", "e", "f", "i", "n", "e", "d", ":", " ", "x", " ">>
      [] s = "expected ';'" -> <<"e", "x", "p", "e", "c", "t", "e", "d", " ", "'", ";", "'">>
      [] s = "integration" -> <<"i", "n", "t", "e", "g", "r", "a", "t", "i", "o", "n">>
      [] s = "/p/after.go" -> <<"/", "p", "/", "a", "f", "t", "e", "r", ".", "g", "o">>
      [] s = "/a/b/x.go" -> <<"/", "a", "/", "b", "/", "x", ".", "g", "o">>
      [] s = "/a/bc/x.go" -> <<"/", "a", "/", "b", "c", "/", "x", ".", "g", "o">>
      [] s = "/c/x.go" -> <<"/", "c", "/", "x", ".", "g", "o">>
      [] s = "/a" -> <<"/", "a">>
      [] s = "/a/b" -> <<"/", "a", "/", "b">>
      [] s = "/c/d" -> <<"/", "c", "/", "d">>
      [] s = "/a/b/x" -> <<"/", "a", "/", "b", "/", "x">>
      [] s = "12" -> <<"1", "2">>
      [] s = "3-7" -> <<"3", "-", "7">>
      [] s = "x" -> <<"x">>
      [] s = "3-" -> <<"3", "-">>
      [] s = "-3" -> <<"-", "3">>
      [] s = "3-x" -> <<"3", "-", "x">>
      [] s = "1-2-3" -> <<"1", "-", "2", "-", "3">>
      [] s = "+5" -> <<"+", "5">>
      [] s = "007" -> <<"0", "0", "7">>
      [] s = "4" -> <<"4">>
      [] s = "c" -> <<"c">>
      [] s = "+4" -> <<"+", "4">>
      [] s = "7-3" -> <<"7", "-", "3">>
      [] s = "test1" -> <<"t", "e", "s", "t", "1">>
      [] s = "test2" -> <<"t", "e", "s", "t", "2">>
      [] s = "1" -> <<"1">>
      [] s = "2" -> <<"2">>
      [] s = "// Code generated " -> <<"/", "/", " ", "C", "o", "d", "e", " ", "g", "e", "n", "e", "r", "a", "t", "e", "d", " ">>
      [] s = " DO NOT EDIT." -> <<" ", "D", "O", " ", "N", "O", "T", " ", "E", "D", "I", "T", ".">>

ReadFile(path) ==
    CASE path = "/p/a.go" -> <<"p", "a", "c", "k", "a", "g", "e", " ", "p", "\n", "f", "u", "n", "c", " ", "f", "(", ")", " ", "{", "}", "\n">>
      [] path = "/p/gen.go" -> <<"/", "/", " ", "C", "o", "d", "e", " ", "g", "e", "n", "e", "r", "a", "t", "e", "d", " ", "b", "y", " ", "f", "o", "o", ".", " ", "D", "O", " ", "N", "O", "T", " ", "E", "D", "I", "T", ".", "\n", "p", "a", "c", "k", "a", "g", "e", " ", "p", "\n">>
      [] path = "/p/late.go" -> <<"\n", "/", "/", " ", "C", "o", "d", "e", " ", "g", "e", "n", "e", "r", "a", "t", "e", "d", " ", "b", "y", " ", "f", "o", "o", ".", " ", "D", "O", " ", "N", "O", "T", " ", "E", "D", "I", "T", ".", "\n", "p", "a", "c", "k", "a", "g", "e", " ", "p", "\n">>
      [] path = "/p/after.go" -> <<"p", "a", "c", "k", "a", "g", "e", " ", "p", "\n", "/", "/", " ", "C", "o", "d", "e", " ", "g", "e", "n", "e", "r", "a", "t", "e", "d", " ", "b", "y", " ", "f", "o", "o", ".", " ", "D", "O", " ", "N", "O", "T", " ", "E", "D", "I", "T", ".", "\n">>
      [] path = "/p/testutil/t.go" -> <<"p", "a", "c", "k", "a", "g", "e", " ", "p", "\n">>
      [] path = "/p/b.c" -> <<"i", "n", "t", " ", "x", ";", "\n">>
      [] path = "/p/x.pb.go" -> <<"p", "a", "c", "k", "a", "g", "e", " ", "p", "\n">>
      [] OTHER -> << >>

\* strings.HasPrefix, strings.HasSuffix, strings.Contains on texts
HasPrefix(t, p) == Len(p) <= Len(t) /\ SubSeq(t, 1, Len(p)) = p

HasSuffix(t, p) == Len(p) <= Len(t) /\ SubSeq(t, Len(t) - Len(p) + 1, Len(t)) = p

Contains(t, p) == \E i \in 1..(Len(t) - Len(p) + 1) : SubSeq(t, i, i + Len(p) - 1) = p

hasAnyPrefix(src, prefixes) == \E p \in prefixes : HasPrefix(Chars(src), Chars(p))

Digits == {"0", "1", "2", "3", "4", "5", "6", "7", "8", "9"}

\* strconv.Itoa for the statement counts that occur
Itoa(n) ==
    CASE n = 0 -> "0" [] n = 1 -> "1" [] n = 2 -> "2" [] n = 3 -> "3"
      [] n = 4 -> "4" [] n = 5 -> "5" [] OTHER -> "many"

\* regexp (G\d{3}), FindAllStringSubmatch(text, -1): the leftmost matches, not
\* overlapping, from position i on; each match is its first submatch
RECURSIVE FindAllRuleIDs(_, _)
FindAllRuleIDs(t, i) ==
    IF i + 3 > Len(t) THEN << >>
    ELSE IF t[i] = "G" /\ t[i+1] \in Digits /\ t[i+2] \in Digits /\ t[i+3] \in Digits
         THEN <<SubSeq(t, i, i + 3)>> \o FindAllRuleIDs(t, i + 4)
         ELSE FindAllRuleIDs(t, i + 1)

\* reGeneratedGoFile.Match(blob): ^ is the start of the text (no multi-line
\* flag) and . matches no newline
reGeneratedGoFileMatch(blob) ==
    LET p == Chars("// Code generated ")
        s == Chars(" DO NOT EDIT.")
    IN  /\ HasPrefix(blob, p)
        /\ \E i \in (Len(p) + 1)..(Len(blob) - Len(s) + 1) :
              /\ SubSeq(blob, i, i + Len(s) - 1) = s
              /\ \A j \in (Len(p) + 1)..(i - 1) : blob[j] # "\n"

\* os.ReadFile succeeds on the files that exist
Readable(path) == ReadFile(path) # << >>

\* filepath.Ext: from the last dot of the last path element
Ext(t) ==
    LET dots == {i \in 1..Len(t) : t[i] = "." /\ \A j \in (i+1)..Len(t) : t[j] \notin {".", "/"}}
    IN  IF dots = {} THEN << >>
        ELSE LET i == CHOOSE d \in dots : TRUE IN SubSeq(t, i, Len(t))

\* token.File.LineCount: one line, and one more for each newline that text follows
LineCount(blob) == 1 + Cardinality({i \in 1..(Len(blob) - 1) : blob[i] = "\n"})

-----------------------------------------------------------------------------
(* What a rule's Match returns: (nil, nil), (issue, nil), (nil, err), or a  *)
(* panic.  An issue carries the rule's message, severity and confidence.   *)

NoResult == [kind |-> "none", What |-> "", Severity |-> "", Confidence |-> ""]

RetNil == [kind |-> "nil", What |-> "", Severity |-> "", Confidence |-> ""]

RetIssue(what, sev, conf) ==
    [kind |-> "issue", What |-> what, Severity |-> sev, Confidence |-> conf]

RetError(msg) == [kind |-> "error", What |-> msg, Severity |-> "", Confidence |-> ""]

RetPanic(msg) == [kind |-> "panic", What |-> msg, Severity |-> "", Confidence |-> ""]

-----------------------------------------------------------------------------
(* rules/sdk/integer.go                                                    *)
(* A call expression f(a): funType is the node type of f, funName its name *)
(* when an identifier; argForm tells an integer literal, a call of len,    *)
(* another call, or any other expression; argT and fnT are the strings of  *)
(* the underlying types that the type checker gives a and f ("nil": none). *)

IntKinds == {"int8", "int16", "int32", "int64", "int",
             "uint8", "uint16", "uint32", "uint64", "uint"}

canLenOverflow64(destKind) ==
    CASE destKind \in {"int8", "uint8", "int16", "uint16"} -> TRUE
      [] destKind = "uint64" -> FALSE
      [] destKind = "uint32" -> TRUE
      [] destKind = "uint" -> FALSE
      [] destKind = "int64" -> FALSE
      [] destKind = "int32" -> TRUE
      [] destKind = "int" -> FALSE
      [] OTHER -> TRUE

\* The 64-bit table, used whatever the host
lenOverflowOn64BitOnly(destKind) == canLenOverflow64(destKind)

canLenOverflow32(destKind) ==
    CASE destKind \in {"int8", "uint8", "int16", "uint16"} -> TRUE
      [] destKind = "uint64" -> FALSE
      [] destKind = "uint32" -> FALSE
      [] destKind = "uint" -> FALSE
      [] destKind = "int64" -> FALSE
      [] destKind = "int32" -> FALSE
      [] destKind = "int" -> FALSE
      [] OTHER -> TRUE

\* A uint-to-uint table that takes uint for 64 bits wide on every host
uintsOverflowAsOn64Bit(srcKind, destKind, b32) ==
    LET bothUints == hasAnyPrefix(srcKind, {"uint"}) /\ hasAnyPrefix(destKind, {"uint"})
    IN  IF ~bothUints THEN TRUE
        ELSE IF destKind = "uint" THEN FALSE
        ELSE IF destKind = "uint64" THEN FALSE
        ELSE IF destKind = "uint32" THEN srcKind = "uint64" \/ srcKind = "uint"
        ELSE IF destKind = "uint16" THEN srcKind = "uint64" \/ srcKind = "uint32" \/ srcKind = "uint"
        ELSE IF destKind = "uint8" THEN srcKind # "uint8"
        ELSE TRUE

canBothUintsOverflow(srcKind, destKind, b32) ==
    LET bothUints == hasAnyPrefix(srcKind, {"uint"}) /\ hasAnyPrefix(destKind, {"uint"})
    IN  IF ~bothUints THEN TRUE
        ELSE IF destKind = "uint" THEN srcKind = "uint64" /\ b32
        ELSE IF destKind = "uint64" THEN FALSE
        ELSE IF destKind = "uint32" THEN srcKind = "uint64" \/ (srcKind = "uint" /\ ~b32)
        ELSE IF destKind = "uint16" THEN srcKind = "uint64" \/ srcKind = "uint32" \/ srcKind = "uint"
        ELSE IF destKind = "uint8" THEN srcKind # "uint8"
        ELSE TRUE

canBothIntToIntOverflow(srcKind, destKind, b32) ==
    LET bothInts == hasAnyPrefix(srcKind, {"int"}) /\ hasAnyPrefix(destKind, {"int"})
    IN  IF ~bothInts THEN TRUE
        ELSE IF destKind = "int" THEN srcKind = "int64" /\ b32
        ELSE IF destKind = "int64" THEN FALSE
        ELSE IF destKind = "int32" THEN srcKind = "int64" \/ (srcKind = "int" /\ ~b32)
        ELSE IF destKind = "int16" THEN srcKind = "int64" \/ srcKind = "int32" \/ srcKind = "int"
        ELSE IF destKind = "int8" THEN srcKind # "int8"
        ELSE TRUE

IntegerWhat == "Potential integer overflow by integer type conversion"

IntegerIssue == RetIssue(IntegerWhat, "High", "Medium")

\* integerOverflowCheck.Match on a node of file fileName
integerOverflowCheckMatch(kind, n, fileName, b32) ==
    IF HasSuffix(Chars(fileName), Chars(".pb.go")) THEN RetNil
    ELSE IF kind # "CallExpr" THEN RetNil
    ELSE IF n.funType # "Ident" THEN RetNil
    ELSE IF n.nargs = 0 THEN RetNil
    ELSE IF n.argT = "nil" THEN RetNil
    ELSE IF n.fnT = "nil" THEN RetNil
    ELSE IF ~hasAnyPrefix(n.fnT, {"int", "uint"}) THEN RetNil
    ELSE IF n.argForm = "IntLit" THEN RetNil
    ELSE IF n.argForm = "CallLen"
         THEN IF (IF b32 THEN canLenOverflow32(n.funName) ELSE canLenOverflow64(n.funName))
              THEN IntegerIssue
              ELSE RetNil
    ELSE IF n.argT = n.fnT THEN RetNil
    ELSE IF hasAnyPrefix(n.argT, {"uint"}) /\ ~canBothUintsOverflow(n.argT, n.fnT, b32) THEN RetNil
    ELSE IF hasAnyPrefix(n.argT, {"int"}) /\ ~canBothIntToIntOverflow(n.argT, n.fnT, b32) THEN RetNil
    ELSE IntegerIssue

-----------------------------------------------------------------------------
(* rules/sdk/time_now.go                                                   *)
(* For f = x.Sel: selName is Sel's name, selXType the node type of x and   *)
(* selXName the name of x (an identifier) or of x's own selector.          *)

TimeNowErr ==
    "time.Now() is non-deterministic for distributed consensus, you should use the current Block's timestamp"

timeNowCheckMatch(kind, n) ==
    IF kind # "CallExpr" THEN RetNil
    ELSE IF n.funType # "SelectorExpr" THEN RetNil
    ELSE IF n.selName # "Now" THEN RetNil
    ELSE IF n.selXType = "Ident" /\ n.selXName # "time" THEN RetNil
    ELSE IF n.selXType = "SelectorExpr" /\ n.selXName # "time" THEN RetNil
    ELSE RetError(TimeNowErr)

\* The call expressions of the model
Call(funType, funName, selName, selXType, selXName, nargs, argForm, argT, fnT) ==
    [funType |-> funType, funName |-> funName, selName |-> selName,
     selXType |-> selXType, selXName |-> selXName,
     nargs |-> nargs, argForm |-> argForm, argT |-> argT, fnT |-> fnT]

\* T(a), a conversion or a call of a function named T
Conv(dest, argForm, argT) == Call("Ident", dest, "", "", "", 1, argForm, argT, dest)

\* x.Sel(), with x an identifier
SelCall(x, sel) == Call("SelectorExpr", "", sel, "Ident", x, 0, "", "nil", "func")

NoCall == Call("", "", "", "", "", 0, "", "nil", "nil")

-----------------------------------------------------------------------------
(* rules/sdk/iterate_over_maps.go                                          *)
(* A range statement "for Key, Value := range X { Body }".  A leaf is an   *)
(* operand that the rule only classifies and prints: its node type and its *)
(* source text (the name, for an identifier).  An expression has the node  *)
(* type, the source text, and the operands the rule looks into: X and      *)
(* Index of an index expression, Fun and the printed Args of a call.       *)

Leaf(type, src) == [type |-> type, src |-> src]

NilLeaf == Leaf("nil", "")

Id(name) == Leaf("Ident", name)

Expr(type, src, x, index, fun, args) ==
    [type |-> type, src |-> src, X |-> x, Index |-> index, Fun |-> fun, Args |-> args]

IdentExpr(name) == Expr("Ident", name, NilLeaf, NilLeaf, NilLeaf, << >>)

IndexExpr(x, index) == Expr("IndexExpr", x.src \o "[" \o index.src \o "]", x, index, NilLeaf, << >>)

CallExpr(fun, args) == Expr("CallExpr", fun.src \o "(...)", NilLeaf, NilLeaf, fun, args)

OtherExpr(type, src) == Expr(type, src, NilLeaf, NilLeaf, NilLeaf, << >>)

NilExpr == OtherExpr("nil", "")

Stmt(type, lhs, rhs, x) == [type |-> type, Lhs |-> lhs, Rhs |-> rhs, X |-> x]

AssignStmt(lhs, rhs) == Stmt("AssignStmt", lhs, rhs, NilExpr)

ExprStmt(x) == Stmt("ExprStmt", << >>, << >>, x)

IncDecStmt(x) == Stmt("IncDecStmt", << >>, << >>, x)

RangeStmt(x, key, value, body) == [X |-> x, Key |-> key, Value |-> value, Body |-> body]

\* The typing of the operands: ctx.Info.TypeOf(e) as the type's own kind and
\* the kind of its underlying type; "nil" when the type checker recorded no type.
\*   m, other, dst : map[K]V      nm : a named type over a map
\*   s, gs : []K                  ns : a named type over a slice
\*   arr : [4]K                   k, j : K      v : V      n : int
\*   ch : chan K                  u : an operand without a recorded type
Type(kind, under) == [kind |-> kind, under |-> under]

TypeOf(src) ==
    CASE src \in {"m", "other", "dst"} -> Type("Map", "Map")
      [] src = "nm" -> Type("Named", "Map")
      [] src \in {"s", "gs"} -> Type("Slice", "Slice")
      [] src = "ns" -> Type("Named", "Slice")
      [] src = "arr" -> Type("Array", "Array")
      [] src \in {"k", "j", "v", "n"} -> Type("Basic", "Basic")
      [] src = "ch" -> Type("Chan", "Chan")
      [] OTHER -> Type("nil", "nil")

\* ast.Ident.Obj, set by the parser for what the file itself declares: nil for
\* the blank identifier and for gs, a package variable declared in another file
IdentObjIsNil(name) == name \in {"_", "gs"}

\* ctx.Info.ObjectOf: the blank identifier denotes no object
ObjectOf(name) == IF name = "_" THEN "nil" ELSE name

onlyAppendCall(callExpr) == callExpr.Fun.type = "Ident" /\ callExpr.Fun.src = "append"

onlyDeleteCall(callExpr) == callExpr.Fun.type = "Ident" /\ callExpr.Fun.src = "delete"

\* The name onlyAppendCall and onlyDeleteCall return beside the verdict
CallName(callExpr) == IF callExpr.Fun.type = "Ident" THEN callExpr.Fun.src ELSE ""

\* isMapCopy: "true", "false", "error" (the returned error) or "panic"
isMapCopy(stmt, rangeStmt) ==
    IF Len(stmt.Lhs) # 1 THEN "false"
    ELSE LET lhs == stmt.Lhs[1]
             rhs == stmt.Rhs[1]
         IN  IF lhs.type # "IndexExpr" THEN "false"
             ELSE IF TypeOf(lhs.X.src).kind = "nil" THEN "error"
             ELSE IF TypeOf(lhs.X.src).under # "Map" THEN "false"
             ELSE IF lhs.Index.type # "Ident" THEN "false"
             ELSE IF rangeStmt.Key.type # "Ident" THEN "false"
             ELSE IF ObjectOf(lhs.Index.src) # ObjectOf(rangeStmt.Key.src) THEN "false"
             ELSE IF rangeStmt.Value.type # "nil"
                  THEN IF rhs.type # "Ident" THEN "false"
                       ELSE IF rangeStmt.Value.type # "Ident" THEN "false"
                       ELSE IF ObjectOf(rhs.src) = ObjectOf(rangeStmt.Value.src)
                            THEN "true" ELSE "false"
             ELSE IF rhs.type # "IndexExpr" THEN "false"
             ELSE IF rhs.Index.type # "Ident" THEN "false"
             ELSE IF ObjectOf(rhs.Index.src) # ObjectOf(rangeStmt.Key.src) THEN "false"
             ELSE IF rangeStmt.X.src = rhs.X.src THEN "true"
             ELSE "panic"

MsgValue ==
    "the value in the range statement should be _ unless copying a map: want: for key := range m"

\* The value message, whatever the number of statements
MsgValueForAnyCount(n) == MsgValue

MsgStmtCount(n) ==
    "expected exactly 1 statement (either append, delete, or copying to another map) in a range with a map, got "
        \o Itoa(n)

MsgKey == "the key in the range statement should not be _: want: for key := range m"

MsgNotCall(name) ==
    "expected either an append, delete, or copy to another map in a range with a map, got: \""
        \o name \o "\""

MsgLhs == "expected either an append, delete, or copy to another map in a range with a map"

MsgBlank == "expected an array/slice being used to retrieve keys, got _"

MsgNotSlice(kind) == "expected an array/slice being used to retrieve keys, got *types." \o kind

MsgNotAppend(what) == "expected only an append(), got: " \o what

MsgStmtType(type) ==
    "got *ast." \o type \o "; expected exactly 1 statement (either append or delete) in a range with a map"

MapIssue(what) == RetIssue(what, "High", "Medium")

\* The switch on the only statement of the body, once the key, the map copy
\* and the value are dealt with
mapRangingStmt(stmt0) ==
    CASE stmt0.type = "ExprStmt" ->
            IF stmt0.X.type # "CallExpr" THEN RetPanic("interface conversion: ast.Expr is not *ast.CallExpr")
            ELSE IF ~onlyDeleteCall(stmt0.X) THEN MapIssue(MsgNotCall(CallName(stmt0.X)))
            ELSE RetNil
      [] stmt0.type = "AssignStmt" ->
            LET lhs0 == stmt0.Lhs[1]
                rhs0 == stmt0.Rhs[1]
            IN  IF lhs0.type # "Ident" THEN MapIssue(MsgLhs)
                ELSE IF IdentObjIsNil(lhs0.src) THEN MapIssue(MsgBlank)
                ELSE IF TypeOf(lhs0.src).kind = "nil" THEN RetError("unable to get type of " \o lhs0.src)
                ELSE IF TypeOf(lhs0.src).kind \notin {"Array", "Slice"}
                     THEN MapIssue(MsgNotSlice(TypeOf(lhs0.src).kind))
                ELSE IF rhs0.type # "CallExpr" THEN MapIssue(MsgNotAppend(rhs0.src))
                ELSE IF ~onlyAppendCall(rhs0)
                     THEN MapIssue(MsgNotAppend("\"" \o CallName(rhs0) \o "\""))
                ELSE RetNil
      [] OTHER -> MapIssue(MsgStmtType(stmt0.type))

\* mapRanging.Match on a range statement
mapRangingMatch(rangeStmt) ==
    IF rangeStmt.X.type = "nil" THEN RetNil
    ELSE IF TypeOf(rangeStmt.X.src).kind = "nil"
         THEN RetError("unable to get type of expr " \o rangeStmt.X.src)
    ELSE IF TypeOf(rangeStmt.X.src).under # "Map" THEN RetNil
    ELSE IF Len(rangeStmt.Body) # 1 THEN MapIssue(MsgStmtCount(Len(rangeStmt.Body)))
    ELSE LET stmt0 == rangeStmt.Body[1]
             mapCopy == IF stmt0.type = "AssignStmt" THEN isMapCopy(stmt0, rangeStmt) ELSE "false"
         IN  IF rangeStmt.Key.type = "nil" THEN MapIssue(MsgKey)
             ELSE IF mapCopy = "error" THEN RetError("unable to get type of expr " \o stmt0.Lhs[1].X.src)
             ELSE IF mapCopy = "panic" THEN RetPanic("asdfasdf")
             ELSE IF mapCopy = "true" THEN RetNil
             ELSE IF rangeStmt.Value.type # "nil" THEN MapIssue(MsgValue)
             ELSE mapRangingStmt(stmt0)

-----------------------------------------------------------------------------
(* The syntax tree of a file.  Every file of the model has the same shape, *)
(*     1 FuncDecl -- 2 AssignStmt -- 3 CallExpr                            *)
(*                \- 4 CallExpr                                            *)
(* and differs in the comment groups attached to its nodes (ast.CommentMap)*)
(* and in the calls that nodes 3 and 4 make.                               *)

Nodes == 1..4

Root == 1

Children(n) == CASE n = 1 -> <<2, 4>> [] n = 2 -> <<3>> [] OTHER -> << >>

Parent(n) == CASE n = 2 -> 1 [] n = 3 -> 2 [] n = 4 -> 1 [] OTHER -> 0

NodeKind(n) == CASE n = 1 -> "FuncDecl" [] n = 2 -> "AssignStmt" [] OTHER -> "CallExpr"

\* n and the nodes above it
RECURSIVE Ancestors(_)
Ancestors(n) == IF n = 0 THEN {} ELSE {n} \cup Ancestors(Parent(n))

File(name, comments, calls) == [Name |-> name, Comments |-> comments, Call |-> calls]

-----------------------------------------------------------------------------
(* The rule catalogue.                                                     *)

\* The rule definitions given to LoadRules: rule ID -> builder
RuleIDs == {"G702", "G706"}

\* The definition maps handed to LoadRules: rule ID -> builder.  In the second
\* the rule that answers with an error has the smaller ID.
RuleDefinitions ==
    [id \in RuleIDs |-> IF id = "G702" THEN "NewIntegerCast" ELSE "NewTimeNowRefusal"]

TimeNowFirstDefinitions ==
    [id \in RuleIDs |-> IF id = "G702" THEN "NewTimeNowRefusal" ELSE "NewIntegerCast"]

\* ruleDefinitions[id] of the map the run was given (kept in walk.defs)
RuleBuilder(id) == walk.defs[id]

\* The node kinds a builder asks to be registered for
BuilderNodes(builder) ==
    CASE builder = "NewIntegerCast" -> {"FuncDecl", "AssignStmt", "CallExpr"}
      [] builder = "NewTimeNowRefusal" -> {"CallExpr"}

NodeKinds == {"FuncDecl", "AssignStmt", "CallExpr"}

\* The byte order of the characters of rule IDs
Code(c) ==
    CASE c = "0" -> 48 [] c = "1" -> 49 [] c = "2" -> 50 [] c = "3" -> 51 [] c = "4" -> 52
      [] c = "5" -> 53 [] c = "6" -> 54 [] c = "7" -> 55 [] c = "8" -> 56 [] c = "9" -> 57
      [] c = "G" -> 71 [] c = "e" -> 101 [] c = "s" -> 115 [] c = "t" -> 116

\* a < b on strings
StrLess(a, b) ==
    LET s == Chars(a)
        t == Chars(b)
    IN  \E i \in 1..Len(t) :
           /\ \A j \in 1..(i - 1) : j <= Len(s) /\ s[j] = t[j]
           /\ (i > Len(s) \/ (i <= Len(s) /\ Code(s[i]) < Code(t[i])))

\* The orders in which a range over the map ruleDefinitions may yield its keys
MapOrders(ids) ==
    {q \in [1..Cardinality(ids) -> ids] : \A i, j \in 1..Cardinality(ids) : i # j => q[i] # q[j]}

\* No sort: the keys as the range over the map yielded them
KeepMapOrder(ids) == ids

\* sort.Slice(ids, ids[i] < ids[j]); the IDs are distinct, being keys of a map
RECURSIVE SortIDs(_)
SortIDs(ids) ==
    IF ids = << >> THEN << >>
    ELSE LET i == CHOOSE a \in 1..Len(ids) : \A b \in 1..Len(ids) : ~StrLess(ids[b], ids[a])
         IN  <<ids[i]>> \o SortIDs(SubSeq(ids, 1, i - 1) \o SubSeq(ids, i + 1, Len(ids)))

\* RuleSet.Register(r, nodes...): r is appended under each of its node kinds
Register(ruleset, id) ==
    [k \in NodeKinds |->
        IF k \in BuilderNodes(RuleBuilder(id)) THEN Append(ruleset[k], id) ELSE ruleset[k]]

RECURSIVE RegisterAll(_, _)
RegisterAll(ruleset, ids) ==
    IF ids = << >> THEN ruleset
    ELSE RegisterAll(Register(ruleset, Head(ids)), Tail(ids))

\* RuleSet.RegisteredFor(n)
RegisteredFor(ruleset, n) == ruleset[NodeKind(n)]

\* rule.Match(n, ctx) of the rule the builder made
RuleMatch(id, n, file, b32) ==
    CASE RuleBuilder(id) = "NewIntegerCast" ->
            integerOverflowCheckMatch(NodeKind(n), file.Call[n], file.Name, b32)
      [] RuleBuilder(id) = "NewTimeNowRefusal" ->
            timeNowCheckMatch(NodeKind(n), file.Call[n])

-----------------------------------------------------------------------------
(* The Analyzer.                                                           *)

NoSecDefaultTag == "#nosec"

\* NewAnalyzer(conf, tests, logger)
NewAnalyzer(conf) ==
    [ignoreNosec |-> conf.nosec,
     config |-> conf,
     ruleset |-> [k \in NodeKinds |-> << >>],
     context |-> [Ignores |-> << >>],
     issues |-> << >>,
     stats |-> [NumFiles |-> 0, NumLines |-> 0, NumNosec |-> 0, NumFound |-> 0]]

\* The first index of a comment group that holds one of the two tags, 0 if none
FirstTagged(groups, altTag) ==
    LET tagged == {i \in 1..Len(groups) :
                      \/ Contains(Chars(groups[i]), Chars(NoSecDefaultTag))
                      \/ Contains(Chars(groups[i]), Chars(altTag))}
    IN  IF tagged = {} THEN 0 ELSE CHOOSE i \in tagged : \A j \in tagged : i <= j

\* Analyzer.ignore(n): the rule IDs to ignore, whether to ignore everything,
\* and by how much NumNosec grows
ignore(g, file, n) ==
    LET groups == file.Comments[n]
        altTag == IF g.config.altSet THEN g.config.alt ELSE NoSecDefaultTag
        i == FirstTagged(groups, altTag)
    IN  IF Len(groups) > 0 /\ ~g.ignoreNosec /\ i # 0
        THEN LET matches == FindAllRuleIDs(Chars(groups[i]), 1)
             IN  IF Len(matches) = 0
                 THEN [ignores |-> << >>, all |-> TRUE, nosec |-> 1]
                 ELSE [ignores |-> matches, all |-> FALSE, nosec |-> 1]
        ELSE [ignores |-> << >>, all |-> FALSE, nosec |-> 0]

Issue(id, res, file, n) ==
    [RuleID |-> id, What |-> res.What, Severity |-> res.Severity,
     Confidence |-> res.Confidence, File |-> file.Name, Node |-> n]

\* A loop over the rules that ends at the first rule that returns an error
RECURSIVE RunRulesUntilError(_, _, _, _, _, _, _)
RunRulesUntilError(rules, ignores, n, file, fi, b32, acc) ==
    IF rules = << >> THEN acc
    ELSE LET id == Head(rules)
             res == RuleMatch(id, n, file, b32)
             called == [issues |-> IF res.kind = "issue"
                                   THEN Append(acc.issues, Issue(id, res, file, n))
                                   ELSE acc.issues,
                        found |-> IF res.kind = "issue" THEN acc.found + 1 ELSE acc.found,
                        matched |-> Append(acc.matched, <<fi, n, id>>)]
         IN  IF Chars(id) \in ignores
             THEN RunRulesUntilError(Tail(rules), ignores, n, file, fi, b32, acc)
             ELSE IF res.kind = "error" THEN called
             ELSE RunRulesUntilError(Tail(rules), ignores, n, file, fi, b32, called)

\* The loop of Visit over the rules registered for n: acc holds the issues,
\* NumFound and the history of Match calls
RECURSIVE RunRules(_, _, _, _, _, _, _)
RunRules(rules, ignores, n, file, fi, b32, acc) ==
    IF rules = << >> THEN acc
    ELSE LET id == Head(rules)
             res == RuleMatch(id, n, file, b32)
         IN  IF Chars(id) \in ignores
             THEN RunRules(Tail(rules), ignores, n, file, fi, b32, acc)
             ELSE RunRules(Tail(rules), ignores, n, file, fi, b32,
                     [issues |-> IF res.kind = "issue"
                                 THEN Append(acc.issues, Issue(id, res, file, n))
                                 ELSE acc.issues,
                      found |-> IF res.kind = "issue" THEN acc.found + 1 ELSE acc.found,
                      matched |-> Append(acc.matched, <<fi, n, id>>)])

\* The set of the elements of a sequence
Range(q) == {q[i] : i \in 1..Len(q)}

\* A Visit that keeps only the exclusions the node adds
OnlyOwnIgnores(Ignores, ignoredRules) == Range(ignoredRules)

\* Visit: the union of the exclusions in force (the set at the head of the
\* stack) and the ones the node adds
UnionIgnores(Ignores, ignoredRules) ==
    (IF Len(Ignores) > 0 THEN Ignores[1] ELSE {}) \cup Range(ignoredRules)

\* A Visit(nil) that leaves the stack as it is
KeepIgnores(Ignores) == Ignores

\* Visit(nil): the head of the stack is dropped, if there is one
PopIgnores(Ignores) == IF Len(Ignores) > 0 THEN Tail(Ignores) ELSE Ignores

\* ast.Walk after a Visit: the next child of the innermost entered node is
\* visited next; cur = 0 when every child is done and Visit(nil) is due
WalkOn(stack) ==
    IF stack = << >> THEN [cur |-> 0, stack |-> << >>]
    ELSE LET top == stack[Len(stack)]
             kids == Children(top.node)
         IN  IF top.next <= Len(kids)
             THEN [cur |-> kids[top.next],
                   stack |-> [stack EXCEPT ![Len(stack)].next = top.next + 1]]
             ELSE [cur |-> 0, stack |-> stack]

\* underTestUtilDirOrPath: a path element is "testutil"
underTestUtilDirOrPath(t) ==
    LET w == Chars("testutil")
    IN  \E i \in 1..(Len(t) - Len(w) + 1) :
           /\ SubSeq(t, i, i + Len(w) - 1) = w
           /\ (i = 1 \/ t[i-1] = "/")
           /\ (i + Len(w) - 1 = Len(t) \/ t[i + Len(w)] = "/")

\* filterOutGeneratedGoFiles on one path: no goroutine is started
filterOutGeneratedGoFilesOne(fullPath) ==
    IF ~reGeneratedGoFileMatch(ReadFile(fullPath)) THEN <<fullPath>> ELSE << >>

-----------------------------------------------------------------------------
(* The inputs of a run of the analyzer.                                    *)

\* The most files in a package
MaxFiles == 2

Config(nosec, altSet, alt) == [nosec |-> nosec, altSet |-> altSet, alt |-> alt]

\* The global options: "nosec" on or off, "nosec-alternative" unset or "#skip"
Configs == {Config(b, a, "#skip") : b \in BOOLEAN, a \in BOOLEAN}

\* The comment groups a node may carry, in the order of the comment map
CommentChoices ==
    {<< >>, <<"#nosec">>, <<"#nosec G702">>, <<"#nosec G706">>,
     <<"#nosec G702", "#nosec">>, <<"#skip">>}

FewCommentChoices == {<< >>, <<"#nosec">>, <<"#nosec G706">>}

TimeNowCall == SelCall("time", "Now")

\* int32(x) with x an int64: flagged; int64(y) with y an int8: not flagged
NarrowingCall == Conv("int32", "Other", "int64")

WideningCall == Conv("int64", "Other", "int8")

Calls(c3, c4) == [n \in Nodes |-> CASE n = 3 -> c3 [] n = 4 -> c4 [] OTHER -> NoCall]

\* The files of the file system: hand-written, generated, generated with the
\* header on the second line, under testutil, not Go
FilePaths == {"/p/a.go", "/p/gen.go", "/p/late.go", "/p/testutil/t.go", "/p/b.c"}

\* The sequences of 1..n distinct elements of S
RECURSIVE DistinctSeqs(_, _)
DistinctSeqs(S, n) ==
    IF n = 0 THEN {<< >>}
    ELSE LET shorter == DistinctSeqs(S, n - 1)
         IN  shorter \cup {Append(q, x) : q \in {r \in shorter : Len(r) = n - 1}, x \in S}

NoDup(q) == \A i, j \in 1..Len(q) : i # j => q[i] # q[j]

\* A package of one hand-written file, any comments on its nodes
OneFilePackages ==
    {<<File("/p/a.go", [n \in Nodes |-> CASE n = 1 -> c1 [] n = 2 -> c2 [] n = 3 -> c3 [] OTHER -> c4],
            Calls(k3, k4))>> :
        c1 \in CommentChoices, c2 \in CommentChoices, c3 \in CommentChoices,
        c4 \in {<< >>, <<"#nosec G706">>},
        k3 \in {TimeNowCall, NarrowingCall, WideningCall},
        k4 \in {TimeNowCall, NarrowingCall}}

\* A package of several files that hold the same code: f() { x := time.Now(); int32(y) },
\* with any comment on the assignment
ManyFilePackages ==
    {[i \in 1..Len(names) |->
         File(names[i], [n \in Nodes |-> IF n = 2 THEN c2 ELSE << >>],
              Calls(TimeNowCall, NarrowingCall))] :
        names \in {q \in DistinctSeqs(FilePaths, MaxFiles) : q # << >> /\ NoDup(q)},
        c2 \in FewCommentChoices}

\* The filter and the single rule call, when they are not what runs
FilterIdle == [pc |-> "idle"]

RuleIdle == [name |-> "idle"]

AnalyzerIdle == [pc |-> "idle"]

\* The walk before LoadRules, for a run given the definition map defs
NewWalk(defs) ==
    [pc |-> "new", file |-> 0, cur |-> 0, stack |-> << >>, ids |-> << >>, defs |-> defs]

Init ==
    /\ \/ \E conf \in Configs, p \in OneFilePackages :
             gosec = NewAnalyzer(conf) /\ pkg = p /\ walk = NewWalk(RuleDefinitions)
       \/ \E p \in ManyFilePackages, defs \in {RuleDefinitions, TimeNowFirstDefinitions} :
             /\ gosec = NewAnalyzer(Config(FALSE, FALSE, "#skip"))
             /\ pkg = p
             /\ walk = NewWalk(defs)
    /\ matched = << >>
    /\ is32Bit = FALSE
    /\ flt = FilterIdle
    /\ rule = RuleIdle

-----------------------------------------------------------------------------
(* The operations of the analyzer.                                         *)

\* Analyzer.LoadRules(ruleDefinitions): the IDs are collected in the order the
\* range over the map yields them (kept in walk.ids), sorted and registered;
\* then Check(pkg) is entered
LoadRules ==
    /\ walk.pc = "new"
    /\ \E ids \in MapOrders(RuleIDs) :
          /\ gosec' = [gosec EXCEPT !.ruleset = RegisterAll(gosec.ruleset, SortIDs(ids))]
          /\ walk' = [walk EXCEPT !.pc = "check", !.file = 1, !.ids = ids]
    /\ UNCHANGED <<pkg, matched, is32Bit, flt, rule>>

\* Analyzer.Check, one turn of its loop up to the call of ast.Walk: a file that
\* is not Go or lies under testutil is skipped; a generated file is not walked
\* and the statements after the walk run at once
CheckFile ==
    /\ walk.pc = "check"
    /\ walk.file <= Len(pkg)
    /\ LET file == pkg[walk.file]
           checkedFile == Chars(file.Name)
       IN  IF Ext(checkedFile) # Chars(".go") \/ underTestUtilDirOrPath(checkedFile)
           THEN /\ walk' = [walk EXCEPT !.file = walk.file + 1]
                /\ UNCHANGED gosec
           ELSE IF Len(filterOutGeneratedGoFilesOne(file.Name)) > 0
           THEN /\ walk' = [walk EXCEPT !.pc = "walk", !.cur = Root, !.stack = << >>]
                /\ UNCHANGED gosec
           ELSE /\ gosec' = [gosec EXCEPT
                               !.stats.NumFiles = gosec.stats.NumFiles + 1,
                               !.stats.NumLines = gosec.stats.NumLines + LineCount(ReadFile(file.Name))]
                /\ walk' = [walk EXCEPT !.file = walk.file + 1]
    /\ UNCHANGED <<pkg, matched, is32Bit, flt, rule>>

\* Analyzer.Visit(n), n # nil, called by ast.Walk
Visit ==
    /\ walk.pc = "walk"
    /\ walk.cur # 0
    /\ LET n == walk.cur
           file == pkg[walk.file]
           ig == ignore(gosec, file, n)
           Ignores == gosec.context.Ignores
           ignores == UnionIgnores(Ignores, ig.ignores)
           ran == RunRules(RegisteredFor(gosec.ruleset, n), ignores, n, file, walk.file, is32Bit,
                           [issues |-> gosec.issues, found |-> gosec.stats.NumFound,
                            matched |-> matched])
       IN  IF ig.all
           THEN /\ gosec' = [gosec EXCEPT !.stats.NumNosec = gosec.stats.NumNosec + ig.nosec]
                /\ walk' = [walk EXCEPT !.cur = WalkOn(walk.stack).cur,
                                        !.stack = WalkOn(walk.stack).stack]
                /\ UNCHANGED matched
           ELSE LET entered == Append(walk.stack, [node |-> n, next |-> 1, saved |-> Ignores])
                IN  /\ gosec' = [gosec EXCEPT
                                    !.stats.NumNosec = gosec.stats.NumNosec + ig.nosec,
                                    !.context.Ignores = <<ignores>> \o Ignores,
                                    !.issues = ran.issues,
                                    !.stats.NumFound = ran.found]
                    /\ matched' = ran.matched
                    /\ walk' = [walk EXCEPT !.cur = WalkOn(entered).cur,
                                            !.stack = WalkOn(entered).stack]
    /\ UNCHANGED <<pkg, is32Bit, flt, rule>>

\* Analyzer.Visit(nil): ast.Walk leaves the innermost entered node
VisitNil ==
    /\ walk.pc = "walk"
    /\ walk.cur = 0
    /\ walk.stack # << >>
    /\ LET Ignores == gosec.context.Ignores
           left == SubSeq(walk.stack, 1, Len(walk.stack) - 1)
       IN  /\ gosec' = [gosec EXCEPT
                           !.context.Ignores = PopIgnores(Ignores)]
           /\ walk' = [walk EXCEPT !.cur = WalkOn(left).cur, !.stack = WalkOn(left).stack]
    /\ UNCHANGED <<pkg, matched, is32Bit, flt, rule>>

\* Analyzer.Check, the statements after ast.Walk has returned
EndFile ==
    /\ walk.pc = "walk"
    /\ walk.cur = 0
    /\ walk.stack = << >>
    /\ gosec' = [gosec EXCEPT
                    !.stats.NumFiles = gosec.stats.NumFiles + 1,
                    !.stats.NumLines = gosec.stats.NumLines + LineCount(ReadFile(pkg[walk.file].Name))]
    /\ walk' = [walk EXCEPT !.pc = "check", !.file = walk.file + 1]
    /\ UNCHANGED <<pkg, matched, is32Bit, flt, rule>>

\* Analyzer.Check returns after the last file
CheckDone ==
    /\ walk.pc = "check"
    /\ walk.file > Len(pkg)
    /\ walk' = [walk EXCEPT !.pc = "done"]
    /\ UNCHANGED <<gosec, pkg, matched, is32Bit, flt, rule>>

Next == LoadRules \/ CheckFile \/ Visit \/ VisitNil \/ EndFile \/ CheckDone

Spec == Init /\ [][Next]_vars

-----------------------------------------------------------------------------
(* One call of a rule's Match on a node: the inputs and the specification. *)

\* The longest body of a range statement
MaxBody == 2

DestKinds == IntKinds \cup {"string"}

SrcKinds == IntKinds \cup {"float64"}

\* T(a): a literal has the type it is converted to, len(...) has type int
IntegerCalls ==
    {Conv(d, "IntLit", d) : d \in DestKinds}
        \cup {Conv(d, "CallLen", "int") : d \in DestKinds}
        \cup {Conv(d, f, a) : d \in DestKinds, f \in {"CallOther", "Other"}, a \in SrcKinds}

IntegerFiles == {"/p/a.go", "/p/x.pb.go"}

RangeOperands == {Id("m"), Id("nm"), Id("s"), Id("u")}

RangeKeys == {NilLeaf, Id("k"), Id("_"), Leaf("IndexExpr", "arr[0]")}

RangeValues == {NilLeaf, Id("v"), Id("_")}

AssignTargets ==
    {IdentExpr("s"), IdentExpr("ns"), IdentExpr("gs"), IdentExpr("_"), IdentExpr("n"),
     IndexExpr(Id("dst"), Id("k")), IndexExpr(Id("dst"), Id("j")),
     IndexExpr(Id("s"), Id("k")), IndexExpr(Id("u"), Id("k")),
     IndexExpr(Id("dst"), Leaf("BasicLit", "0")),
     OtherExpr("SelectorExpr", "x.s")}

AssignSources ==
    {CallExpr(Id("append"), <<"s", "k">>), CallExpr(Id("append"), <<"s", "m[k]">>),
     CallExpr(Id("foo"), <<"k">>), CallExpr(Leaf("SelectorExpr", "x.append"), <<"s", "k">>),
     IdentExpr("v"), IdentExpr("k"),
     IndexExpr(Id("m"), Id("k")), IndexExpr(Id("other"), Id("k")),
     IndexExpr(Id("m"), Id("j")), IndexExpr(Id("m"), Leaf("BasicLit", "0"))}

\* The statements a one-statement body is drawn from
BodyStmts ==
    {AssignStmt(<<l>>, <<r>>) : l \in AssignTargets, r \in AssignSources}
        \cup {AssignStmt(<<IdentExpr("_"), IdentExpr("_")>>, <<IdentExpr("k"), IdentExpr("v")>>)}
        \cup {ExprStmt(CallExpr(Id("delete"), <<"m", "k">>)),
              ExprStmt(CallExpr(Id("delete"), <<"m", "j">>)),
              ExprStmt(CallExpr(Id("foo"), <<"k">>)),
              ExprStmt(CallExpr(Leaf("SelectorExpr", "x.delete"), <<"k">>)),
              ExprStmt(OtherExpr("UnaryExpr", "<-ch")),
              IncDecStmt(IdentExpr("n"))}

\* The statements of a longer body
LongBodyStmts ==
    {AssignStmt(<<IdentExpr("_")>>, <<IdentExpr("k")>>),
     AssignStmt(<<IdentExpr("_")>>, <<IdentExpr("v")>>),
     ExprStmt(CallExpr(Id("delete"), <<"m", "k">>))}

RECURSIVE SeqsOf(_, _)
SeqsOf(S, n) ==
    IF n = 0 THEN {<< >>}
    ELSE {Append(q, x) : q \in SeqsOf(S, n - 1), x \in S}

RangeBodies ==
    {<< >>} \cup {<<st>> : st \in BodyStmts}
        \cup UNION {SeqsOf(LongBodyStmts, n) : n \in 2..MaxBody}

NoRange == RangeStmt(NilLeaf, NilLeaf, NilLeaf, << >>)

\* What a rule call on its own leaves alone
RulesFrame == UNCHANGED <<gosec, pkg, walk, matched, is32Bit, flt>>

InitRules ==
    /\ gosec = AnalyzerIdle /\ pkg = << >> /\ walk = AnalyzerIdle /\ matched = << >>
    /\ flt = FilterIdle
    /\ is32Bit \in BOOLEAN
    /\ \/ \E c \in IntegerCalls, f \in IntegerFiles :
             rule = [name |-> "integer", call |-> c, file |-> f, range |-> NoRange,
                     out |-> NoResult]
       \/ \E x \in RangeOperands, k \in RangeKeys, v \in RangeValues, b \in RangeBodies :
             /\ is32Bit = FALSE
             /\ rule = [name |-> "mapRanging", call |-> NoCall, file |-> "/p/a.go",
                        range |-> RangeStmt(x, k, v, b), out |-> NoResult]

\* The analyzer hands a call expression to integerOverflowCheck.Match
MatchInteger ==
    /\ rule.name = "integer"
    /\ rule.out = NoResult
    /\ rule' = [rule EXCEPT !.out = integerOverflowCheckMatch("CallExpr", rule.call, rule.file, is32Bit)]
    /\ RulesFrame

\* The analyzer hands a range statement to mapRanging.Match
MatchMapRanging ==
    /\ rule.name = "mapRanging"
    /\ rule.out = NoResult
    /\ rule' = [rule EXCEPT !.out = mapRangingMatch(rule.range)]
    /\ RulesFrame


NextRules == MatchInteger \/ MatchMapRanging

SpecRules == InitRules /\ [][NextRules]_vars

-----------------------------------------------------------------------------
(* filterOutGeneratedGoFiles(fullPaths): the producer goroutine sends the   *)
(* positions on posCh and closes it; NumCPU workers each take a position,   *)
(* read the file and send it on filteredCh unless it is generated; a        *)
(* goroutine closes filteredCh once every worker is done; the caller        *)
(* collects filteredCh until it is closed, sorts by position and returns.   *)

\* The longest input and the most workers (runtime.NumCPU())
MaxPaths == 3

MaxWorkers == 2

\* The capacity of posCh and of filteredCh
ChanCap == 10

\* The paths handed to the filter; /p/missing.go cannot be read
FilterPaths == {"/p/a.go", "/p/late.go", "/p/after.go", "/p/gen.go", "/p/missing.go"}

Position(pos, fullPath) == [pos |-> pos, fullPath |-> fullPath]

NoPosition == Position(-1, "")

\* No sort: the positions in the order the consumer received them
KeepArrivalOrder(q) == q

\* sort.Slice(ordered, ordered[i].pos < ordered[j].pos); positions are distinct
SortByPos(q) ==
    [k \in 1..Len(q) |->
        q[CHOOSE a \in 1..Len(q) :
             Cardinality({b \in 1..Len(q) : q[b].pos < q[a].pos}) = k - 1]]

\* What a step of the filter leaves alone
FilterFrame == UNCHANGED <<gosec, pkg, walk, matched, is32Bit, rule>>

InitFilter ==
    /\ \E n \in 0..MaxPaths, workers \in 1..MaxWorkers :
          \E in \in [1..n -> FilterPaths] :
              flt = [pc |-> "start", in |-> in, workers |-> workers,
                     next |-> 1, posCh |-> << >>, posClosed |-> FALSE,
                     w |-> [i \in 1..workers |-> [pc |-> "recv", pi |-> NoPosition]],
                     filteredCh |-> << >>, filteredClosed |-> FALSE,
                     ordered |-> << >>, filtered |-> << >>]
    /\ gosec = AnalyzerIdle /\ pkg = << >> /\ walk = AnalyzerIdle /\ matched = << >>
    /\ is32Bit = FALSE /\ rule = RuleIdle

\* The call: nothing to do for no path, no goroutine for one path, else the
\* channels are made and the goroutines started
FilterCall ==
    /\ flt.pc = "start"
    /\ flt' = IF Len(flt.in) = 0 THEN [flt EXCEPT !.pc = "returned"]
              ELSE IF Len(flt.in) = 1
              THEN IF ~Readable(flt.in[1]) THEN [flt EXCEPT !.pc = "panic"]
                   ELSE [flt EXCEPT !.pc = "returned",
                                    !.filtered = filterOutGeneratedGoFilesOne(flt.in[1])]
              ELSE [flt EXCEPT !.pc = "collect"]
    /\ FilterFrame

\* The producer: posCh <- &position{pos: i, fullPath: fullPath}
Produce ==
    /\ flt.pc = "collect"
    /\ flt.next <= Len(flt.in)
    /\ Len(flt.posCh) < ChanCap
    /\ flt' = [flt EXCEPT !.posCh = Append(flt.posCh, Position(flt.next - 1, flt.in[flt.next])),
                          !.next = flt.next + 1]
    /\ FilterFrame

\* The producer returns: defer close(posCh)
ClosePosCh ==
    /\ flt.pc = "collect"
    /\ flt.next > Len(flt.in)
    /\ ~flt.posClosed
    /\ flt' = [flt EXCEPT !.posClosed = TRUE]
    /\ FilterFrame

\* A worker takes a position from posCh and reads the file: a read error
\* panics, a generated file is dropped, any other is held to be sent
WorkerTake(i) ==
    /\ flt.pc = "collect"
    /\ i \in 1..flt.workers
    /\ flt.w[i].pc = "recv"
    /\ flt.posCh # << >>
    /\ LET pi == Head(flt.posCh)
       IN  flt' = IF ~Readable(pi.fullPath) THEN [flt EXCEPT !.pc = "panic"]
                  ELSE IF ~reGeneratedGoFileMatch(ReadFile(pi.fullPath))
                  THEN [flt EXCEPT !.posCh = Tail(flt.posCh),
                                   !.w[i] = [pc |-> "send", pi |-> pi]]
                  ELSE [flt EXCEPT !.posCh = Tail(flt.posCh)]
    /\ FilterFrame

\* filteredCh <- pi
WorkerSend(i) ==
    /\ flt.pc = "collect"
    /\ i \in 1..flt.workers
    /\ flt.w[i].pc = "send"
    /\ Len(flt.filteredCh) < ChanCap
    /\ flt' = [flt EXCEPT !.filteredCh = Append(flt.filteredCh, flt.w[i].pi),
                          !.w[i] = [pc |-> "recv", pi |-> NoPosition]]
    /\ FilterFrame

\* A worker that ends as soon as it finds posCh empty, closed or not
WorkerDoneEarly(i) ==
    /\ flt.pc = "collect"
    /\ i \in 1..flt.workers
    /\ flt.w[i].pc = "recv"
    /\ flt.posCh = << >>
    /\ flt' = [flt EXCEPT !.w[i] = [pc |-> "done", pi |-> NoPosition]]
    /\ FilterFrame

\* The range over posCh ends, posCh closed and drained: defer wg.Done()
WorkerDone(i) ==
    /\ flt.pc = "collect"
    /\ i \in 1..flt.workers
    /\ flt.w[i].pc = "recv"
    /\ flt.posCh = << >>
    /\ flt.posClosed
    /\ flt' = [flt EXCEPT !.w[i] = [pc |-> "done", pi |-> NoPosition]]
    /\ FilterFrame

\* wg.Wait() returns; close(filteredCh)
CloseFilteredCh ==
    /\ flt.pc = "collect"
    /\ \A i \in 1..flt.workers : flt.w[i].pc = "done"
    /\ ~flt.filteredClosed
    /\ flt' = [flt EXCEPT !.filteredClosed = TRUE]
    /\ FilterFrame

\* The caller's range over filteredCh: ordered = append(ordered, ...)
Collect ==
    /\ flt.pc = "collect"
    /\ flt.filteredCh # << >>
    /\ flt' = [flt EXCEPT !.ordered = Append(flt.ordered, Head(flt.filteredCh)),
                          !.filteredCh = Tail(flt.filteredCh)]
    /\ FilterFrame

\* filteredCh is closed and drained: sort by position, return the paths
FilterReturn ==
    /\ flt.pc = "collect"
    /\ flt.filteredCh = << >>
    /\ flt.filteredClosed
    /\ LET sorted == SortByPos(flt.ordered)
       IN  flt' = [flt EXCEPT !.pc = "returned",
                              !.filtered = [k \in 1..Len(sorted) |-> sorted[k].fullPath]]
    /\ FilterFrame

NextFilter ==
    \/ FilterCall
    \/ Produce
    \/ ClosePosCh
    \/ \E i \in 1..MaxWorkers : WorkerTake(i)
    \/ \E i \in 1..MaxWorkers : WorkerSend(i)
    \/ \E i \in 1..MaxWorkers : WorkerDone(i)
    \/ CloseFilteredCh
    \/ Collect
    \/ FilterReturn

SpecFilter == InitFilter /\ [][NextFilter]_vars

-----------------------------------------------------------------------------
(* rules/sdk/strconv_bitsize_mismatch.go                                   *)
(* The rule sees, in walk order, an assignment u, err := f(s, 10, b), the  *)
(* call on its right-hand side and a later conversion T(x).  A literal is  *)
(* its source text, a sequence of characters.                              *)

MaxBitSize == 70

DigitVal(c) ==
    CASE c = "0" -> 0 [] c = "1" -> 1 [] c = "2" -> 2 [] c = "3" -> 3 [] c = "4" -> 4
      [] c = "5" -> 5 [] c = "6" -> 6 [] c = "7" -> 7 [] c = "8" -> 8 [] c = "9" -> 9
      [] c \in {"a", "A"} -> 10 [] c \in {"b", "B"} -> 11 [] c \in {"c", "C"} -> 12
      [] c \in {"d", "D"} -> 13 [] c \in {"e", "E"} -> 14 [] c \in {"f", "F"} -> 15
      [] OTHER -> 99

\* The value of the digits of t in the given base
RECURSIVE DigitsValue(_, _)
DigitsValue(t, base) ==
    IF t = << >> THEN 0
    ELSE DigitsValue(SubSeq(t, 1, Len(t) - 1), base) * base + DigitVal(t[Len(t)])

\* strconv.Atoi: an optional sign and decimal digits, nothing else
Atoi(t) ==
    LET signed == t # << >> /\ t[1] \in {"+", "-"}
        digits == IF signed THEN Tail(t) ELSE t
    IN  IF digits = << >> \/ \E i \in 1..Len(digits) : digits[i] \notin Digits
        THEN [ok |-> FALSE, val |-> 0]
        ELSE [ok |-> TRUE,
              val |-> IF signed /\ t[1] = "-" THEN 0 - DigitsValue(digits, 10)
                      ELSE DigitsValue(digits, 10)]

\* The characters of t as one string
RECURSIVE Join(_)
Join(t) == IF t = << >> THEN "" ELSE t[1] \o Join(Tail(t))

\* The decimal digits of a number that is not negative
RECURSIVE DecChars(_)
DecChars(n) ==
    LET d == CASE n % 10 = 0 -> "0" [] n % 10 = 1 -> "1" [] n % 10 = 2 -> "2"
               [] n % 10 = 3 -> "3" [] n % 10 = 4 -> "4" [] n % 10 = 5 -> "5"
               [] n % 10 = 6 -> "6" [] n % 10 = 7 -> "7" [] n % 10 = 8 -> "8"
               [] OTHER -> "9"
    IN  IF n < 10 THEN <<d>> ELSE Append(DecChars(n \div 10), d)

\* fmt %d
FormatD(n) == Join(DecChars(n))

MsgInvalidBitSize(value) ==
    "Invalid bitSize \"" \o Join(value) \o "\" parse failure: strconv.Atoi: parsing \""
        \o Join(value) \o "\": invalid syntax"

MsgBitSizeOverflow(bitSize, name) ==
    "Overflow in bitSize of " \o FormatD(bitSize) \o " for \"" \o name \o "\""

\* *ast.BasicLit with the text of the literal
BasicLit(value) == [type |-> "BasicLit", Value |-> value]

BitSizeIssue(what) == RetIssue(what, "High", "Medium")

\* *ast.Ident with its Obj: the object the parser resolved the name to in the
\* file, or NilObj for the blank identifier and for a name the file does not
\* declare (a variable of another file of the package, a dot import)
NilObj == "nil"

Ident(name, obj) == [type |-> "Ident", src |-> name, Obj |-> obj]

\* u, err := pkg.fun(s, 10, bitSize): lhs0 is the first target (an identifier
\* or not), rhs the kind of the right-hand side, bitSize its third argument
BitsizeAssign(lhs0, rhs, bitSize) == [lhs0 |-> lhs0, rhs |-> rhs, bitSize |-> bitSize]

\* calls.ContainsPkgCallExpr with the call list {strconv.ParseUint}
IsParseUintCall(rhs) == rhs = "strconv.ParseUint"

\* bitsizeOverflowCheck.Match on an assignment: the assignment is stored under
\* the object of its first target
bitsizeMatchAssign(passed, n) ==
    IF n.rhs = "NotCall" THEN passed
    ELSE IF ~IsParseUintCall(n.rhs) THEN passed
    ELSE IF n.lhs0.type = "Ident" /\ n.lhs0.src # "_"
         THEN [o \in DOMAIN passed \cup {n.lhs0.Obj} |->
                  IF o = n.lhs0.Obj THEN n ELSE passed[o]]
    ELSE passed

\* bitsizeOverflowCheck.Match on a call fn(arg)
bitsizeMatchCall(passed, fun, arg) ==
    IF fun.type # "Ident" THEN RetNil
    ELSE IF fun.src \notin {"int", "int16", "int32", "int64"} THEN RetNil
    ELSE IF arg.type # "Ident" THEN RetNil
    ELSE IF arg.Obj \notin DOMAIN passed THEN RetNil
    ELSE LET stmt == passed[arg.Obj]
             bitSizeLit == stmt.bitSize
             bitSize == Atoi(bitSizeLit.Value)
         IN  IF bitSizeLit.type # "BasicLit" THEN RetNil
             ELSE IF ~bitSize.ok THEN BitSizeIssue(MsgInvalidBitSize(bitSizeLit.Value))
             ELSE IF \/ fun.src = "int16" /\ bitSize.val >= 16
                     \/ fun.src = "int64" /\ bitSize.val >= 64
                     \/ fun.src = "int32" /\ bitSize.val >= 32
                     \/ fun.src = "int" /\ (bitSize.val = 32 \/ bitSize.val >= 64)
                  THEN BitSizeIssue(MsgBitSizeOverflow(bitSize.val, fun.src))
             ELSE RetNil

\* The third argument of the call: the decimal literals 0..MaxBitSize, the
\* literals 0x40, 040, 0b1000000 and 6_4, and a named constant
BitSizeArgs ==
    {BasicLit(DecChars(b)) : b \in 0..MaxBitSize}
        \cup {BasicLit(<<"0", "x", "4", "0">>), BasicLit(<<"0", "4", "0">>),
              BasicLit(<<"0", "b", "1", "0", "0", "0", "0", "0", "0">>),
              BasicLit(<<"6", "_", "4">>), Id("bits")}

BitsizeAssigns ==
    {BitsizeAssign(l, r, b) :
        l \in {Ident("u", "u"), Ident("_", NilObj), Leaf("SelectorExpr", "x.f")},
        r \in {"strconv.ParseUint", "strconv.ParseInt", "foo", "NotCall"},
        b \in BitSizeArgs}

BitsizeFuns ==
    {Id("int"), Id("int16"), Id("int32"), Id("int64"), Id("int8"), Id("uint32"),
     Leaf("SelectorExpr", "pkg.int64")}

BitsizeArgs == {Ident("u", "u"), Ident("w", "w"), Leaf("BasicLit", "7")}

\* What a call of the bitsize rule leaves alone
BitsizeFrame == UNCHANGED <<gosec, pkg, walk, matched, is32Bit, flt>>

\* ctx.PassedValues holds nothing for the rule before its first call in a file
InitBitsize ==
    /\ gosec = AnalyzerIdle /\ pkg = << >> /\ walk = AnalyzerIdle /\ matched = << >>
    /\ flt = FilterIdle /\ is32Bit = FALSE
    /\ \E a \in BitsizeAssigns, f \in BitsizeFuns, x \in BitsizeArgs :
          rule = [name |-> "bitsize", pc |-> "assign", assign |-> a, fun |-> f, arg |-> x,
                  passed |-> << >>, inner |-> NoResult, out |-> NoResult]

\* Match on the assignment statement
BitsizeVisitAssign ==
    /\ rule.name = "bitsize"
    /\ rule.pc = "assign"
    /\ rule' = [rule EXCEPT !.passed = bitsizeMatchAssign(rule.passed, rule.assign),
                            !.pc = IF rule.assign.rhs = "NotCall" THEN "conv" ELSE "inner"]
    /\ BitsizeFrame

\* Match on the call of the right-hand side: its Fun is the selector
\* strconv.ParseUint or strconv.ParseInt, or the identifier foo
BitsizeVisitInnerCall ==
    /\ rule.name = "bitsize"
    /\ rule.pc = "inner"
    /\ LET fun == IF rule.assign.rhs = "foo" THEN Id("foo")
                  ELSE Leaf("SelectorExpr", rule.assign.rhs)
       IN  rule' = [rule EXCEPT !.inner = bitsizeMatchCall(rule.passed, fun, Ident("s", "s")),
                                !.pc = "conv"]
    /\ BitsizeFrame

\* Match on the later conversion fun(arg)
BitsizeVisitConversion ==
    /\ rule.name = "bitsize"
    /\ rule.pc = "conv"
    /\ rule.out = NoResult
    /\ rule' = [rule EXCEPT !.out = bitsizeMatchCall(rule.passed, rule.fun, rule.arg),
                            !.pc = "done"]
    /\ BitsizeFrame

NextBitsize == BitsizeVisitAssign \/ BitsizeVisitInnerCall \/ BitsizeVisitConversion

SpecBitsize == InitBitsize /\ [][NextBitsize]_vars

-----------------------------------------------------------------------------
(* Analyzer.Process with Analyzer.load, ParseErrors, AppendError and        *)
(* sortErrors.  pkg holds the arguments of the call, gosec the analyzer     *)
(* (tests flag, error map, the packages handed to Check) and walk the       *)
(* position of the call: the loop index, the one packages.Config that all   *)
(* paths share, what load returned, and what Process returned.              *)
(* An error value is the text of its message; NilErr is no error.           *)

MaxPkgPaths == 2

NilErr == << >>

\* The directories of the run.  /p/gone does not exist; the files of
\* /p/tagged and one file of /p/mixed carry //go:build integration; /p/two
\* holds two packages; the go command fails on /p/drv; the packages of
\* /p/errs and /p/badpos come back with errors
PkgDirs == {"/p/ok", "/p/tagged", "/p/mixed", "/p/gone", "/p/two", "/p/drv", "/p/errs", "/p/badpos"}

BuildTagChoices == {<< >>, <<"integration">>}

SourceFile(name, kind, tag) == [name |-> name, kind |-> kind, tag |-> tag]

DirFiles(path) ==
    CASE path = "/p/ok" -> <<SourceFile("ok.go", "go", ""), SourceFile("ok_test.go", "test", "")>>
      [] path = "/p/tagged" -> <<SourceFile("it.go", "go", "integration")>>
      [] path = "/p/mixed" -> <<SourceFile("m.go", "go", ""), SourceFile("m_it.go", "go", "integration")>>
      [] path = "/p/two" -> <<SourceFile("a.go", "go", ""), SourceFile("b.go", "go", "")>>
      [] path = "/p/drv" -> <<SourceFile("d.go", "go", "")>>
      [] path = "/p/errs" -> <<SourceFile("e.go", "go", "")>>
      [] path = "/p/badpos" -> <<SourceFile("b.go", "go", "")>>
      [] OTHER -> << >>

\* GetPkgAbsPath: the paths are absolute already; an error when nothing is there
GetPkgAbsPath(path) == [abspath |-> path, ok |-> path # "/p/gone"]

Names(files) == [i \in 1..Len(files) |-> files[i].name]

\* build.Context.ImportDir: the files whose build constraint the context's
\* BuildTags satisfy, by kind; an error when the directory holds two packages
\* or no file is left
ImportDir(buildTags, dir) ==
    LET built(f) == f.tag = "" \/ \E i \in 1..Len(buildTags) : buildTags[i] = f.tag
        ofKind(k) == Names(SelectSeq(DirFiles(dir), LAMBDA f : built(f) /\ f.kind = k))
        files == SelectSeq(DirFiles(dir), built)
    IN  [GoFiles |-> ofKind("go"), CgoFiles |-> ofKind("cgo"),
         TestGoFiles |-> ofKind("test"), XTestGoFiles |-> ofKind("xtest"),
         err |-> IF dir = "/p/two"
                 THEN Chars("found packages a (a.go) and b (b.go) in /p/two")
                 ELSE IF files = << >>
                      THEN Chars("no buildable Go source files in") \o <<" ">> \o Chars(dir)
                      ELSE NilErr]

\* path.Join(abspath, filename)
PathJoin(abspath, filename) == abspath \o "/" \o filename

PackageError(pos, msg) == [Pos |-> Chars(pos), Msg |-> Chars(msg)]

Package(name, files, errors) == [Name |-> name, GoFiles |-> files, Errors |-> errors]

\* packages.Load(conf, files...): the go command fails when it is handed tag
\* names as flags and on /p/drv; else one package of the listed files
PackagesLoad(conf, files) ==
    IF conf.BuildFlags # << >> \/ files[1] = "/p/drv/d.go"
    THEN [pkgs |-> << >>, err |-> Chars("go list: exit status 1")]
    ELSE [err |-> NilErr,
          pkgs |-> <<CASE files[1] = "/p/ok/ok.go" -> Package("ok", files, << >>)
                       [] files[1] = "/p/tagged/it.go" -> Package("tagged", files, << >>)
                       [] files[1] = "/p/mixed/m.go" -> Package("mixed", files, << >>)
                       [] files[1] = "/p/errs/e.go" ->
                            Package("errs", files,
                                    <<PackageError("e.go:5:1", " undefined: x "),
                                      PackageError("e.go:2:3", "expected ';'"),
                                      PackageError("e.go:2:1", "expected ';'")>>)
                       [] files[1] = "/p/badpos/b.go" ->
                            Package("badpos", files,
                                    <<PackageError("b.go:7:2", "expected ';'"),
                                      PackageError("b.go:4:1", " undefined: x "),
                                      PackageError("b.go:x", "expected ';'")>>)
                       [] OTHER -> Package("", files, << >>)>>]

\* fmt %q of a text without characters to escape
Quote(t) == <<"\"">> \o t \o <<"\"">>

\* What one call of load did: the build tags that ImportDir applied, the
\* files collected, the BuildFlags that packages.Load was handed
LoadStep(path, stage, buildTags, files, loaderFlags) ==
    [path |-> path, stage |-> stage, BuildTags |-> buildTags, files |-> files,
     loaderFlags |-> loaderFlags]

\* Analyzer.load(pkgPath, conf): conf is a pointer, so the BuildFlags that
\* load clears stay cleared in the caller's config
load(tests, pkgPath, conf) ==
    LET abs == GetPkgAbsPath(pkgPath)
        basePackage == ImportDir(conf.BuildFlags, abs.abspath)
        joined(names) == [i \in 1..Len(names) |-> PathJoin(abs.abspath, names[i])]
        packageFiles == joined(basePackage.GoFiles) \o joined(basePackage.CgoFiles)
                          \o (IF tests
                              THEN joined(basePackage.TestGoFiles \o basePackage.XTestGoFiles)
                              ELSE << >>)
        cleared == [conf EXCEPT !.BuildFlags = << >>]
        loaded == PackagesLoad(cleared, packageFiles)
    IN  IF ~abs.ok
        THEN [pkgs |-> << >>, err |-> NilErr, conf |-> conf,
              step |-> LoadStep(pkgPath, "skipped", << >>, << >>, << >>)]
        ELSE IF basePackage.err # NilErr
        THEN [pkgs |-> << >>, conf |-> conf,
              err |-> Chars("importing dir ") \o Quote(Chars(pkgPath)) \o Chars(": ")
                        \o basePackage.err,
              step |-> LoadStep(pkgPath, "imported", conf.BuildFlags, << >>, << >>)]
        ELSE IF loaded.err # NilErr
        THEN [pkgs |-> << >>, conf |-> cleared,
              err |-> Chars("loading files from package ") \o Quote(Chars(pkgPath))
                        \o Chars(": ") \o loaded.err,
              step |-> LoadStep(pkgPath, "loaded", conf.BuildFlags, packageFiles,
                                cleared.BuildFlags)]
        ELSE [pkgs |-> loaded.pkgs, err |-> NilErr, conf |-> cleared,
              step |-> LoadStep(pkgPath, "loaded", conf.BuildFlags, packageFiles,
                                cleared.BuildFlags)]

NewError(line, column, err) == [Line |-> line, Column |-> column, Err |-> err]

\* gosec.errors[file] = append(gosec.errors[file], e), the entry made if absent
AppendTo(errors, file, e) ==
    [k \in DOMAIN errors \cup {file} |->
        IF k = file
        THEN (IF file \in DOMAIN errors THEN errors[file] ELSE << >>) \o <<e>>
        ELSE errors[k]]

AppendErrorAlways(errors, file, err) ==
    AppendTo(errors, file, NewError(0, 0, Join(err)))

\* Analyzer.AppendError
AppendError(errors, file, err) ==
    IF Contains(err, Chars("no buildable Go source files in"))
    THEN errors
    ELSE AppendTo(errors, file, NewError(0, 0, Join(err)))

\* strings.Split(t, sep) for a separator of one character
RECURSIVE Split(_, _)
Split(t, sep) ==
    LET at == {i \in 1..Len(t) : t[i] = sep}
    IN  IF at = {} THEN <<t>>
        ELSE LET i == CHOOSE j \in at : \A k \in at : j <= k
             IN  <<SubSeq(t, 1, i - 1)>> \o Split(SubSeq(t, i + 1, Len(t)), sep)

\* strings.TrimSpace
RECURSIVE TrimSpace(_)
TrimSpace(t) ==
    IF t # << >> /\ t[1] \in {" ", "\n", "\t"} THEN TrimSpace(Tail(t))
    ELSE IF t # << >> /\ t[Len(t)] \in {" ", "\n", "\t"}
         THEN TrimSpace(SubSeq(t, 1, Len(t) - 1))
         ELSE t

AtoiError(t) == "strconv.Atoi: parsing \"" \o Join(t) \o "\": invalid syntax"

\* Analyzer.ParseErrors, from the i-th error of the package on: the errors
\* before a position that does not parse stay in the map
RECURSIVE ParseErrors(_, _, _)
ParseErrors(errors, pkgErrors, i) ==
    IF i > Len(pkgErrors) THEN [errors |-> errors, err |-> ""]
    ELSE LET parts == Split(pkgErrors[i].Pos, ":")
             file == Join(parts[1])
             line == IF Len(parts) > 1 THEN Atoi(parts[2]) ELSE [ok |-> TRUE, val |-> 0]
             column == IF Len(parts) > 2 THEN Atoi(parts[3]) ELSE [ok |-> TRUE, val |-> 0]
             msg == Join(TrimSpace(pkgErrors[i].Msg))
         IN  IF ~line.ok
             THEN [errors |-> errors, err |-> "parsing line: " \o AtoiError(parts[2])]
             ELSE IF ~column.ok
             THEN [errors |-> errors, err |-> "parsing column: " \o AtoiError(parts[3])]
             ELSE ParseErrors(AppendTo(errors, file, NewError(line.val, column.val, msg)),
                              pkgErrors, i + 1)

\* The order sort.Slice leaves a slice in under sortErrors' comparison (Line,
\* then Column with <=): sort.Slice is not stable, and the <= lets it swap
\* equal neighbours, so entries with the same Line and Column may end up in
\* any order
LineColumnOrdered(errs) ==
    \A i \in 1..(Len(errs) - 1) :
        \/ errs[i].Line < errs[i+1].Line
        \/ errs[i].Line = errs[i+1].Line /\ errs[i].Column <= errs[i+1].Column

RECURSIVE SortSlice(_)
SortSlice(errs) ==
    IF errs = << >> THEN {<< >>}
    ELSE LET least == {i \in 1..Len(errs) :
                          \A j \in 1..Len(errs) : LineColumnOrdered(<<errs[i], errs[j]>>)}
             first == {i \in least : \A j \in 1..(i - 1) : errs[j] # errs[i]}
         IN  UNION {{<<errs[i]>> \o rest :
                       rest \in SortSlice(SubSeq(errs, 1, i - 1) \o SubSeq(errs, i + 1, Len(errs)))} :
                    i \in first}

\* sortErrors(allErrors): every slice of the map sorted in place
sortErrors(allErrors) ==
    {m \in [DOMAIN allErrors -> UNION {SortSlice(allErrors[k]) : k \in DOMAIN allErrors}] :
        \A k \in DOMAIN allErrors : m[k] \in SortSlice(allErrors[k])}

\* The loop of Process over the packages of one path, from the i-th on:
\* ParseErrors, then Check, for the packages that have a name
RECURSIVE RangePkgs(_, _, _, _)
RangePkgs(errors, checked, pkgs, i) ==
    IF i > Len(pkgs) THEN [errors |-> errors, checked |-> checked, err |-> ""]
    ELSE IF pkgs[i].Name = "" THEN RangePkgs(errors, checked, pkgs, i + 1)
    ELSE LET parsed == ParseErrors(errors, pkgs[i].Errors, 1)
         IN  IF parsed.err # ""
             THEN [errors |-> parsed.errors, checked |-> checked,
                   err |-> "parsing errors in pkg \"" \o pkgs[i].Name \o "\": " \o parsed.err]
             ELSE RangePkgs(parsed.errors, Append(checked, pkgs[i].Name), pkgs, i + 1)

PackagePathLists == UNION {[1..n -> PkgDirs] : n \in 0..MaxPkgPaths}

ProcessFrame == UNCHANGED <<pkg, matched, is32Bit, flt, rule>>

InitProcess ==
    /\ \E tags \in BuildTagChoices, paths \in PackagePathLists :
          pkg = [buildTags |-> tags, packagePaths |-> paths]
    /\ \E tests \in BOOLEAN :
          gosec = [tests |-> tests, errors |-> << >>, checked |-> << >>]
    /\ walk = [pc |-> "call", i |-> 0, conf |-> [BuildFlags |-> << >>, Tests |-> FALSE],
               loads |-> << >>, pkgs |-> << >>, err |-> NilErr, ret |-> "none"]
    /\ matched = << >> /\ is32Bit = FALSE /\ flt = FilterIdle /\ rule = RuleIdle

\* Process(buildTags, packagePaths...): the config, made once for all paths
ProcessCall ==
    /\ walk.pc = "call"
    /\ walk' = [walk EXCEPT !.pc = "load", !.i = 1,
                            !.conf = [BuildFlags |-> pkg.buildTags, Tests |-> gosec.tests]]
    /\ UNCHANGED gosec
    /\ ProcessFrame

\* pkgs, err := gosec.load(pkgPath, config), and AppendError on an error
ProcessLoad ==
    /\ walk.pc = "load"
    /\ walk.i <= Len(pkg.packagePaths)
    /\ LET pkgPath == pkg.packagePaths[walk.i]
           r == load(gosec.tests, pkgPath, walk.conf)
       IN  /\ gosec' = [gosec EXCEPT !.errors = IF r.err # NilErr
                                                 THEN AppendError(@, pkgPath, r.err)
                                                 ELSE @]
           /\ walk' = [walk EXCEPT !.pc = "pkgs", !.conf = r.conf, !.pkgs = r.pkgs,
                                   !.err = r.err, !.loads = Append(@, r.step)]
    /\ ProcessFrame

\* The loop over the packages of the path: on to the next path, or out of
\* Process with the error of ParseErrors
ProcessPackages ==
    /\ walk.pc = "pkgs"
    /\ LET r == RangePkgs(gosec.errors, gosec.checked, walk.pkgs, 1)
       IN  /\ gosec' = [gosec EXCEPT !.errors = r.errors, !.checked = r.checked]
           /\ walk' = IF r.err # ""
                      THEN [walk EXCEPT !.pc = "done", !.ret = r.err]
                      ELSE [walk EXCEPT !.pc = "load", !.i = @ + 1]
    /\ ProcessFrame

\* After the last path: sortErrors(gosec.errors); return nil
ProcessReturn ==
    /\ walk.pc = "load"
    /\ walk.i > Len(pkg.packagePaths)
    /\ \E sorted \in sortErrors(gosec.errors) :
          gosec' = [gosec EXCEPT !.errors = sorted]
    /\ walk' = [walk EXCEPT !.pc = "done", !.ret = "nil"]
    /\ ProcessFrame

NextProcess ==
    \/ ProcessCall
    \/ ProcessLoad
    \/ ProcessPackages
    \/ ProcessReturn

SpecProcess == InitProcess /\ [][NextProcess]_vars

-----------------------------------------------------------------------------
(* output: buildSarifLocation(issue, rootPaths).  walk holds the call: the  *)
(* issue's File, Line and Col, the root paths, and what the call returned.  *)

MaxRoots == 2

SarifFiles == {"/a/b/x.go", "/a/bc/x.go", "/c/x.go"}

SarifRoots == {"/a", "/a/b", "/c/d", "/a/b/x"}

\* The numbers in the lines and columns handed over are short, far below the
\* 20 digits at which ParseUint leaves the range of 64 bits
SarifLines == {"12", "3-7", "7-3", "", "x", "3-", "-3", "3-x", "1-2-3", "+5", "007"}

SarifCols == {"4", "", "c", "+4"}

\* The text of a string, the empty string included
Text(s) == IF s = "" THEN << >> ELSE Chars(s)

ParseUintSigned(t) ==
    [ok |-> Atoi(t).ok /\ Atoi(t).val >= 0, val |-> Atoi(t).val,
     err |-> "strconv.ParseUint: parsing \"" \o Join(t) \o "\": invalid syntax"]

\* strconv.ParseUint(t, 10, 64) on a text short enough to stay in range:
\* digits only, at least one
ParseUint(t) ==
    [ok |-> t # << >> /\ \A i \in 1..Len(t) : t[i] \in Digits,
     val |-> IF t # << >> /\ \A i \in 1..Len(t) : t[i] \in Digits
             THEN DigitsValue(t, 10) ELSE 0,
     err |-> "strconv.ParseUint: parsing \"" \o Join(t) \o "\": invalid syntax"]

\* strings.Replace(t, old, "", 1): the first occurrence of old taken out
RemoveFirst(t, old) ==
    LET at == {i \in 1..(Len(t) - Len(old) + 1) : SubSeq(t, i, i + Len(old) - 1) = old}
    IN  IF at = {} THEN t
        ELSE LET i == CHOOSE j \in at : \A k \in at : j <= k
             IN  SubSeq(t, 1, i - 1) \o SubSeq(t, i + Len(old), Len(t))

\* The loop over rootPaths: filePath starts empty, and every root that is a
\* prefix of the file assigns it anew
RECURSIVE StripRoots(_, _, _, _)
StripRoots(file, rootPaths, i, filePath) ==
    IF i > Len(rootPaths) THEN filePath
    ELSE StripRoots(file, rootPaths, i + 1,
                    IF HasPrefix(file, Text(rootPaths[i]))
                    THEN RemoveFirst(file, Text(rootPaths[i]) \o <<"/">>)
                    ELSE filePath)

NilLocation == [nil |-> TRUE]

SarifLocation(uri, startLine, endLine, col) ==
    [nil |-> FALSE, URI |-> uri, StartLine |-> startLine, EndLine |-> endLine,
     StartColumn |-> col, EndColumn |-> col]

buildSarifLocation(issue, rootPaths) ==
    LET lines == Split(Text(issue.Line), "-")
        startLine == ParseUint(lines[1])
        endLine == IF Len(lines) > 1 THEN ParseUint(lines[2]) ELSE startLine
        col == ParseUint(Text(issue.Col))
    IN  IF ~startLine.ok THEN [location |-> NilLocation, err |-> startLine.err]
        ELSE IF ~endLine.ok THEN [location |-> NilLocation, err |-> endLine.err]
        ELSE IF ~col.ok THEN [location |-> NilLocation, err |-> col.err]
        ELSE [location |-> SarifLocation(Join(StripRoots(Text(issue.File), rootPaths, 1, << >>)),
                                         startLine.val, endLine.val, col.val),
              err |-> "nil"]

SarifRootLists == UNION {[1..n -> SarifRoots] : n \in 0..MaxRoots}

SarifFrame == UNCHANGED <<gosec, pkg, matched, is32Bit, flt, rule>>

InitSarif ==
    /\ \E file \in SarifFiles, line \in SarifLines, col \in SarifCols, roots \in SarifRootLists :
          walk = [pc |-> "call", issue |-> [File |-> file, Line |-> line, Col |-> col],
                  rootPaths |-> roots, location |-> NilLocation, err |-> "none"]
    /\ gosec = AnalyzerIdle /\ pkg = << >> /\ matched = << >>
    /\ is32Bit = FALSE /\ flt = FilterIdle /\ rule = RuleIdle

BuildSarifLocation ==
    /\ walk.pc = "call"
    /\ LET r == buildSarifLocation(walk.issue, walk.rootPaths)
       IN  walk' = [walk EXCEPT !.pc = "returned", !.location = r.location, !.err = r.err]
    /\ SarifFrame

NextSarif ==
    \/ BuildSarifLocation

SpecSarif == InitSarif /\ [][NextSarif]_vars

-----------------------------------------------------------------------------
(* cmd/gosec: sortIssues.  walk holds the slice handed to sortIssues and,   *)
(* after the call, the slice as sort.Sort left it.                         *)

MaxIssues == 3

\* gosec.Score: Low, Medium, High are 0, 1, 2
SortIssue(severity, what, file, line) ==
    [Severity |-> severity, What |-> what, File |-> file, Line |-> line]

SortIssueChoices ==
    {SortIssue(2, "test1", "test1", "1"), SortIssue(0, "test2", "test2", "2"),
     SortIssue(2, "test2", "test1", "1"), SortIssue(2, "test1", "test2", "1"),
     SortIssue(2, "test1", "test1", "3-7"), SortIssue(2, "test1", "test1", "x"),
     SortIssue(2, "test1", "test1", "2"), SortIssue(2, "test1", "test1", "+5")}

\* extractLineNumber: Atoi of the text before the first dash, 0 on an error
extractLineNumber(s) ==
    LET n == Atoi(Split(Text(s), "-")[1])
    IN  IF n.ok THEN n.val ELSE 0

LessFileBeforeWhat(a, b) ==
    IF a.Severity # b.Severity THEN a.Severity > b.Severity
    ELSE IF a.File # b.File THEN StrLess(b.File, a.File)
    ELSE IF a.What # b.What THEN StrLess(b.What, a.What)
    ELSE extractLineNumber(a.Line) > extractLineNumber(b.Line)

\* sortBySeverity.Less on the issues at i and j
sortBySeverityLess(a, b) ==
    IF a.Severity # b.Severity THEN a.Severity > b.Severity
    ELSE IF a.What # b.What THEN StrLess(b.What, a.What)
    ELSE IF a.File = b.File
         THEN extractLineNumber(a.Line) > extractLineNumber(b.Line)
         ELSE StrLess(b.File, a.File)

\* sort.Sort: not stable, so any arrangement of the slice in which no later
\* element is less than an earlier one
sortIssues(issues) ==
    {s \in {[i \in 1..Len(issues) |-> issues[p[i]]] : p \in Permutations(1..Len(issues))} :
        \A i, j \in 1..Len(s) : i < j => ~sortBySeverityLess(s[j], s[i])}

SortFrame == UNCHANGED <<gosec, pkg, matched, is32Bit, flt, rule>>

InitSort ==
    /\ \E n \in 0..MaxIssues : \E issues \in [1..n -> SortIssueChoices] :
          walk = [pc |-> "call", in |-> issues, issues |-> issues]
    /\ gosec = AnalyzerIdle /\ pkg = << >> /\ matched = << >>
    /\ is32Bit = FALSE /\ flt = FilterIdle /\ rule = RuleIdle

SortIssues ==
    /\ walk.pc = "call"
    /\ \E sorted \in sortIssues(walk.issues) :
          walk' = [walk EXCEPT !.pc = "sorted", !.issues = sorted]
    /\ SortFrame

NextSort ==
    \/ SortIssues

SpecSort == InitSort /\ [][NextSort]_vars

-----------------------------------------------------------------------------
(* The error-not-propagated rule (noErrorCheck).  rule holds the statement  *)
(* handed to Match and what Match returned.  A target of an assignment is   *)
(* an identifier, a selector or an index expression; a right-hand side is a *)
(* call with the type that the type checker recorded for it (a tuple of     *)
(* result types, one named or basic type, or none), or no call.            *)

MaxTargets == 2

Target(type, name) == [type |-> type, Name |-> name]

Targets ==
    {Target("Ident", "_"), Target("Ident", "err"), Target("SelectorExpr", "s.err"),
     Target("IndexExpr", "m[k]")}

\* types.Type of a call: Tuple with the strings of its variables' types;
\* Named or Basic with the string of the type; nil
TupleType(types) == [kind |-> "Tuple", types |-> types, name |-> ""]

SingleType(kind, name) == [kind |-> kind, types |-> << >>, name |-> name]

Rhs(type, tv) == [type |-> type, tv |-> tv]

SingleRhs ==
    {Rhs("CallExpr", SingleType("Named", "error")), Rhs("CallExpr", SingleType("Basic", "int")),
     Rhs("CallExpr", SingleType("nil", "")), Rhs("Ident", SingleType("Named", "error"))}

TupleRhs(n) == {Rhs("CallExpr", TupleType(t)) : t \in [1..n -> {"int", "error"}]}

\* The assignments that compile: as many single-valued expressions as
\* targets, or one call with as many results as targets
NoErrorStmts ==
    {Stmt("ExprStmt", << >>, <<r>>, NilExpr) : r \in SingleRhs}
    \cup UNION {{Stmt("AssignStmt", lhs, rhs, NilExpr) :
                    lhs \in [1..n -> Targets],
                    rhs \in [1..n -> SingleRhs]
                            \cup (IF n > 1 THEN {<<r>> : r \in TupleRhs(n)} ELSE {})} :
                n \in 1..MaxTargets}

\* returnsError: the position of the first error among the results, -1 if none
returnsError(callExpr) ==
    LET tv == callExpr.tv
        errs == {p \in 1..Len(tv.types) : tv.types[p] = "error"}
    IN  IF tv.kind = "Tuple"
        THEN IF errs = {} THEN -1
             ELSE (CHOOSE p \in errs : \A q \in errs : p <= q) - 1
        ELSE IF tv.kind = "Named" /\ tv.name = "error" THEN 0
        ELSE -1

NoErrorWhat == "Returned error is not propagated up the stack."

NoErrorIssue(what) == RetIssue(what, "Low", "High")

\* The loop of Match over stmt.Rhs, from the i-th expression on
RECURSIVE noErrorCheckRange(_, _)
noErrorCheckRange(stmt, i) ==
    IF i > Len(stmt.Rhs) THEN RetNil
    ELSE IF stmt.Rhs[i].type # "CallExpr" THEN noErrorCheckRange(stmt, i + 1)
    ELSE LET pos == returnsError(stmt.Rhs[i])
         IN  IF pos < 0 \/ pos >= Len(stmt.Lhs) THEN RetNil
             ELSE IF stmt.Lhs[pos + 1].type # "Ident" THEN NoErrorIssue("PANIC!")
             ELSE IF stmt.Lhs[pos + 1].Name = "_" THEN NoErrorIssue(NoErrorWhat)
             ELSE noErrorCheckRange(stmt, i + 1)

\* noErrorCheck.Match
noErrorCheckMatch(stmt) ==
    IF stmt.type = "AssignStmt" THEN noErrorCheckRange(stmt, 1) ELSE RetNil

NoErrorFrame == UNCHANGED <<gosec, pkg, walk, matched, is32Bit, flt>>

InitNoError ==
    /\ gosec = AnalyzerIdle /\ pkg = << >> /\ walk = AnalyzerIdle /\ matched = << >>
    /\ flt = FilterIdle /\ is32Bit = FALSE
    /\ \E stmt \in NoErrorStmts :
          rule = [name |-> "noErrorCheck", stmt |-> stmt, out |-> NoResult]

MatchNoError ==
    /\ rule.name = "noErrorCheck"
    /\ rule.out = NoResult
    /\ rule' = [rule EXCEPT !.out = noErrorCheckMatch(rule.stmt)]
    /\ NoErrorFrame

NextNoError ==
    \/ MatchNoError

SpecNoError == InitNoError /\ [][NextNoError]_vars

-----------------------------------------------------------------------------
(* The analyzer over several calls: LoadRules, Check, Process and Reset,    *)
(* each call one step.  gosec holds the analyzer with its error map; walk   *)
(* the definition map, the number of calls made, and whether LoadRules has  *)
(* been called since the analyzer was made or last reset.                  *)

MaxCalls == 3

RECURSIVE WalkNode(_, _, _, _)
RECURSIVE WalkChildren(_, _, _, _, _)

\* ast.Walk(gosec, n): Visit(n); when it does not return nil, the children
\* in order and then Visit(nil).  A one-element set names a value once.
WalkNode(g0, file, fi, n) ==
    CHOOSE out \in
        {IF ig.all THEN [g EXCEPT !.stats.NumNosec = @ + ig.nosec]
         ELSE CHOOSE left \in
                 {[walked EXCEPT !.context.Ignores = PopIgnores(@)] :
                     walked \in
                         {WalkChildren([g EXCEPT !.stats.NumNosec = @ + ig.nosec,
                                                 !.context.Ignores = <<ran.ignores>> \o @,
                                                 !.issues = ran.issues,
                                                 !.stats.NumFound = ran.found],
                                       file, fi, Children(n), 1) :
                             ran \in
                                 {RunRules(RegisteredFor(g.ruleset, n), ignores, n, file, fi, FALSE,
                                           [issues |-> g.issues, found |-> g.stats.NumFound,
                                            matched |-> << >>]) @@ [ignores |-> ignores] :
                                     ignores \in {UnionIgnores(g.context.Ignores, ig.ignores)}}}} :
                 TRUE :
            g \in {g0}, ig \in {ignore(g0, file, n)}} : TRUE

WalkChildren(g, file, fi, kids, i) ==
    IF i > Len(kids) THEN g
    ELSE WalkChildren(WalkNode(g, file, fi, kids[i]), file, fi, kids, i + 1)

\* Analyzer.Check(pkg), from the fi-th syntax file on
RECURSIVE Check(_, _, _)
Check(g, p, fi) ==
    IF fi > Len(p) THEN g
    ELSE IF Ext(Chars(p[fi].Name)) # Chars(".go") \/ underTestUtilDirOrPath(Chars(p[fi].Name))
    THEN Check(g, p, fi + 1)
    ELSE CHOOSE out \in
            {Check([walked EXCEPT !.stats.NumFiles = @ + 1,
                                  !.stats.NumLines = @ + LineCount(ReadFile(p[fi].Name))],
                   p, fi + 1) :
                walked \in {IF Len(filterOutGeneratedGoFilesOne(p[fi].Name)) > 0
                            THEN WalkNode(g, p[fi], fi, Root)
                            ELSE g}} : TRUE

\* pkg.Syntax of the packages that load: f() { x := time.Now(); int32(y) } in
\* one hand-written file, with a #nosec G706 on the assignment in package
\* mixed, and with a generated file besides in package errs
Syntax(name) ==
    LET plain == File("/p/a.go", [n \in Nodes |-> << >>], Calls(TimeNowCall, NarrowingCall))
        listed == File("/p/a.go", [n \in Nodes |-> IF n = 2 THEN <<"#nosec G706">> ELSE << >>],
                       Calls(TimeNowCall, NarrowingCall))
        generated == File("/p/gen.go", [n \in Nodes |-> << >>], Calls(TimeNowCall, NarrowingCall))
    IN  CASE name = "mixed" -> <<listed>>
          [] name = "errs" -> <<generated, plain>>
          [] OTHER -> <<plain>>

\* The loop of Process over the packages of one path, with the Check of each
RECURSIVE ProcessPkgs(_, _, _)
ProcessPkgs(g0, pkgs, i) ==
    IF i > Len(pkgs) THEN [gosec |-> g0, err |-> ""]
    ELSE IF pkgs[i].Name = "" THEN ProcessPkgs(g0, pkgs, i + 1)
    ELSE CHOOSE out \in
            {IF parsed.err # ""
             THEN [gosec |-> [g EXCEPT !.errors = parsed.errors],
                   err |-> "parsing errors in pkg \"" \o pkgs[i].Name \o "\": " \o parsed.err]
             ELSE CHOOSE rest \in
                     {ProcessPkgs(checked, pkgs, i + 1) :
                         checked \in {Check([g EXCEPT !.errors = parsed.errors],
                                            Syntax(pkgs[i].Name), 1)}} : TRUE :
                g \in {g0}, parsed \in {ParseErrors(g0.errors, pkgs[i].Errors, 1)}} : TRUE

\* Analyzer.Process(buildTags, packagePaths...), from the i-th path on with
\* the shared config conf: the analyzers it may leave (sort.Slice is not
\* stable) and what it returns
RECURSIVE Process(_, _, _, _)
Process(g0, conf, packagePaths, i) ==
    IF i > Len(packagePaths)
    THEN {[gosec |-> [g0 EXCEPT !.errors = sorted], err |-> ""] : sorted \in sortErrors(g0.errors)}
    ELSE UNION
            {UNION {IF done.err # "" THEN {done}
                    ELSE Process(done.gosec, r.conf, packagePaths, i + 1) :
                       done \in {ProcessPkgs([g EXCEPT !.errors = IF r.err # NilErr
                                                                  THEN AppendError(@, packagePaths[i], r.err)
                                                                  ELSE @],
                                              r.pkgs, 1)}} :
                g \in {g0}, r \in {load(g0.tests, packagePaths[i], conf)}}

ResetKeepsRuleset(g) ==
    [g EXCEPT !.context = [Ignores |-> << >>], !.issues = << >>,
              !.stats = [NumFiles |-> 0, NumLines |-> 0, NumNosec |-> 0, NumFound |-> 0]]

ResetKeepsStats(g) ==
    [g EXCEPT !.context = [Ignores |-> << >>], !.issues = << >>,
              !.ruleset = [k \in NodeKinds |-> << >>]]

\* Analyzer.Reset
Reset(g) ==
    [g EXCEPT !.context = [Ignores |-> << >>], !.issues = << >>,
              !.stats = [NumFiles |-> 0, NumLines |-> 0, NumNosec |-> 0, NumFound |-> 0],
              !.ruleset = [k \in NodeKinds |-> << >>]]

\* The packages handed to Check and the paths handed to Process
LifePackages == {Syntax("ok"), Syntax("mixed")}

LifePaths == {<<"/p/ok">>, <<"/p/two", "/p/errs">>, <<"/p/badpos">>}

LifeFrame == UNCHANGED <<pkg, matched, is32Bit, flt, rule>>

Called(last) == [walk EXCEPT !.calls = @ + 1, !.last = last]

InitLife ==
    /\ \E conf \in {Config(FALSE, FALSE, "#skip"), Config(TRUE, FALSE, "#skip")} :
          gosec = NewAnalyzer(conf) @@ [errors |-> << >>, tests |-> FALSE]
    /\ walk = [pc |-> "life", defs |-> RuleDefinitions, calls |-> 0, loaded |-> FALSE,
               last |-> "NewAnalyzer"]
    /\ pkg = << >> /\ matched = << >> /\ is32Bit = FALSE /\ flt = FilterIdle /\ rule = RuleIdle

LifeLoadRules ==
    /\ walk.calls < MaxCalls
    /\ \E ids \in MapOrders(RuleIDs) :
          gosec' = [gosec EXCEPT !.ruleset = RegisterAll(@, SortIDs(ids))]
    /\ walk' = [Called("LoadRules") EXCEPT !.loaded = TRUE]
    /\ LifeFrame

LifeCheck ==
    /\ walk.calls < MaxCalls
    /\ \E p \in LifePackages : gosec' = Check(gosec, p, 1)
    /\ walk' = Called("Check")
    /\ LifeFrame

LifeProcess ==
    /\ walk.calls < MaxCalls
    /\ \E paths \in LifePaths :
          \E r \in Process(gosec, [BuildFlags |-> << >>, Tests |-> gosec.tests], paths, 1) :
              gosec' = r.gosec
    /\ walk' = Called("Process")
    /\ LifeFrame

LifeReset ==
    /\ walk.calls < MaxCalls
    /\ gosec' = Reset(gosec)
    /\ walk' = [Called("Reset") EXCEPT !.loaded = FALSE]
    /\ LifeFrame

NextLife ==
    \/ LifeLoadRules
    \/ LifeCheck
    \/ LifeProcess
    \/ LifeReset

SpecLife == InitLife /\ [][NextLife]_vars

-----------------------------------------------------------------------------
(* The strconv bitsize rule over the files of a package.  Analyzer.Check   *)
(* gives every file it analyses a fresh ctx.PassedValues, and the walk of  *)
(* the file calls the rule on each assignment and each call in source      *)
(* order.  rule holds the files, the position of the walk, the map the     *)
(* rule keeps in PassedValues and the issues reported so far.              *)

\* The most statements in a file
MaxStmts == 2

\* A statement with the assignment or the conversion it holds
ScratchAssign(a) == [kind |-> "assign", assign |-> a]

ScratchConv(fun, arg) == [kind |-> "conv", fun |-> fun, arg |-> arg]

\* The statements of a file: u is declared in the file and its object is the
\* file's own; total and other are variables declared in another file of the
\* package, which the parser leaves unresolved
ScratchStmts(name) ==
    {ScratchAssign(BitsizeAssign(l, r, BasicLit(<<"6", "4">>))) :
        l \in {Ident("u", name \o ":u"), Ident("total", NilObj)},
        r \in {"strconv.ParseUint", "foo"}}
      \cup {ScratchAssign(BitsizeAssign(Ident("_", NilObj), "strconv.ParseUint", BasicLit(<<"6", "4">>)))}
      \cup {ScratchConv(Id("int64"), x) :
              x \in {Ident("u", name \o ":u"), Ident("other", NilObj)}}
      \cup {ScratchConv(Id("uint32"), Ident("u", name \o ":u"))}

\* A syntax file: its name and its statements in source order
ScratchFile(name, stmts) == [Name |-> name, stmts |-> stmts]

ScratchFiles(name) ==
    {ScratchFile(name, q) : q \in UNION {[1..k -> ScratchStmts(name)] : k \in 1..MaxStmts}}

\* pkg.Syntax: a first file that is hand-written Go, generated Go or C, and
\* perhaps a second, hand-written file
ScratchPackages ==
    LET firsts == UNION {ScratchFiles(n) : n \in {"/p/a.go", "/p/gen.go", "/p/b.c"}}
    IN  {<<f>> : f \in ScratchFiles("/p/a.go")}
          \cup {<<f, g>> : f \in firsts, g \in ScratchFiles("/p/x.pb.go")}

\* What a step of the rule over the files leaves alone
ScratchFrame == UNCHANGED <<gosec, pkg, walk, matched, is32Bit, flt>>

\* Before Check: PassedValues is the map NewAnalyzer made
InitScratch ==
    /\ gosec = AnalyzerIdle /\ pkg = << >> /\ walk = AnalyzerIdle /\ matched = << >>
    /\ flt = FilterIdle /\ is32Bit = FALSE
    /\ \E files \in ScratchPackages :
          rule = [name |-> "scratch", pc |-> "file", files |-> files, fi |-> 1, ni |-> 0,
                  passed |-> << >>, issues |-> << >>]

\* One turn of the loop of Check up to the walk: a file that is not Go is
\* passed over, any other gets a new PassedValues and is walked unless it is
\* generated
ScratchCheckFile ==
    /\ rule.name = "scratch"
    /\ rule.pc = "file"
    /\ rule.fi <= Len(rule.files)
    /\ LET checkedFile == rule.files[rule.fi].Name
       IN  IF Ext(Chars(checkedFile)) # Chars(".go") \/ underTestUtilDirOrPath(Chars(checkedFile))
           THEN rule' = [rule EXCEPT !.fi = @ + 1]
           ELSE IF Len(filterOutGeneratedGoFilesOne(checkedFile)) > 0
           THEN rule' = [rule EXCEPT !.passed = << >>, !.pc = "walk", !.ni = 1]
           ELSE rule' = [rule EXCEPT !.passed = << >>, !.fi = @ + 1]
    /\ ScratchFrame

\* Visit on the next statement of the file: Match on the assignment, or on the
\* conversion, whose issue is appended to the issues of the analyzer
ScratchVisit ==
    /\ rule.name = "scratch"
    /\ rule.pc = "walk"
    /\ rule.ni <= Len(rule.files[rule.fi].stmts)
    /\ LET stmt == rule.files[rule.fi].stmts[rule.ni]
           out == bitsizeMatchCall(rule.passed, stmt.fun, stmt.arg)
       IN  IF stmt.kind = "assign"
           THEN rule' = [rule EXCEPT !.passed = bitsizeMatchAssign(rule.passed, stmt.assign),
                                     !.pc = "rhs"]
           ELSE rule' = [rule EXCEPT !.ni = @ + 1,
                                     !.issues = IF out.kind = "issue"
                                                THEN Append(@, [fi |-> rule.fi, ni |-> rule.ni,
                                                                What |-> out.What])
                                                ELSE @]
    /\ ScratchFrame

\* Visit on the call of the right-hand side of the assignment: its Fun is the
\* selector strconv.ParseUint or the identifier foo
ScratchVisitRhs ==
    /\ rule.name = "scratch"
    /\ rule.pc = "rhs"
    /\ LET stmt == rule.files[rule.fi].stmts[rule.ni]
           fun == IF stmt.assign.rhs = "foo" THEN Id("foo")
                  ELSE Leaf("SelectorExpr", stmt.assign.rhs)
           out == bitsizeMatchCall(rule.passed, fun, Ident("s", rule.files[rule.fi].Name \o ":s"))
       IN  rule' = [rule EXCEPT !.ni = @ + 1, !.pc = "walk",
                                !.issues = IF out.kind = "issue"
                                           THEN Append(@, [fi |-> rule.fi, ni |-> rule.ni,
                                                           What |-> out.What])
                                           ELSE @]
    /\ ScratchFrame

\* The walk of the file is over: Check goes on to the next file
ScratchEndFile ==
    /\ rule.name = "scratch"
    /\ rule.pc = "walk"
    /\ rule.ni > Len(rule.files[rule.fi].stmts)
    /\ rule' = [rule EXCEPT !.fi = @ + 1, !.pc = "file", !.ni = 0]
    /\ ScratchFrame

NextScratch == ScratchCheckFile \/ ScratchVisit \/ ScratchVisitRhs \/ ScratchEndFile

SpecScratch == InitScratch /\ [][NextScratch]_vars

-----------------------------------------------------------------------------
(* The search of Analyzer.load for the module root: from the package        *)
(* directory upwards, the first directory that holds a regular file go.mod, *)
(* as long as the working directory is not reached.  A path is the text    *)
(* filepath.Abs returns: cleaned, absolute, a sequence of characters.      *)
(* rule holds the two directories, what os.Stat finds for go.mod in each   *)
(* directory above the package, and the variables of the loop.             *)

\* The deepest directory
MaxDepth == 2

DirNames == {"a", "b"}

\* The directories down to a depth: the root is the separator alone
RECURSIVE DirsOfDepth(_)
DirsOfDepth(d) ==
    IF d = 0 THEN {<<"/">>}
    ELSE {(IF up = <<"/">> THEN up ELSE Append(up, "/")) \o <<n>> :
             up \in DirsOfDepth(d - 1), n \in DirNames}

AllDirs == UNION {DirsOfDepth(d) : d \in 0..MaxDepth}

\* filepath.Dir of a cleaned absolute path: all but the last element, and
\* the root for the root and for the directories in it
Dir(p) ==
    LET seps == {i \in 1..Len(p) : p[i] = "/"}
        last == CHOOSE i \in seps : \A j \in seps : j <= i
    IN  IF last = 1 THEN <<"/">> ELSE SubSeq(p, 1, last - 1)

\* strings.HasSuffix(p, string(filepath.Separator))
HasSeparatorSuffix(p) == p # << >> /\ p[Len(p)] = "/"

\* The package directory and the directories above it, up to the root
UpwardPath(p) ==
    {p, <<"/">>} \cup {SubSeq(p, 1, i - 1) : i \in {j \in 2..Len(p) : p[j] = "/"}}

\* os.Stat(filepath.Join(p, "go.mod")): "none" for an error, "file" for a
\* regular file, "dir" for a directory
GoModKinds == {"none", "file", "dir"}

Stat(fs, p) == IF p \in DOMAIN fs THEN fs[p] ELSE "none"

\* err == nil
StatOk(fs, p) == Stat(fs, p) # "none"

\* err == nil && !info.IsDir()
IsRegularGoMod(fs, p) == Stat(fs, p) = "file"

\* What a step of the search leaves alone
ModRootFrame == UNCHANGED <<gosec, pkg, walk, matched, is32Bit, flt>>

\* load is called: any package directory, any working directory, anything
\* named go.mod in the directories above the package
InitModRoot ==
    /\ gosec = AnalyzerIdle /\ pkg = << >> /\ walk = AnalyzerIdle /\ matched = << >>
    /\ flt = FilterIdle /\ is32Bit = FALSE
    /\ \E abspath \in AllDirs, wd \in AllDirs :
          \E fs \in [UpwardPath(abspath) -> GoModKinds] :
             rule = [name |-> "modroot", pc |-> "start", abspath |-> abspath,
                     absWorkingDir |-> wd, fs |-> fs, p |-> << >>, absGoModPath |-> << >>,
                     stats |-> << >>]

\* absGoModPath := absWorkingDir; p := abspath
ModRootStart ==
    /\ rule.name = "modroot"
    /\ rule.pc = "start"
    /\ rule' = [rule EXCEPT !.absGoModPath = rule.absWorkingDir, !.p = rule.abspath,
                            !.pc = "loop"]
    /\ ModRootFrame

\* One turn of the loop: the go.mod of p is looked at; the loop ends when it
\* is a regular file and when p ends with the separator, else p := Dir(p)
ModRootStep ==
    /\ rule.name = "modroot"
    /\ rule.pc = "loop"
    /\ rule.p # rule.absWorkingDir
    /\ IF IsRegularGoMod(rule.fs, rule.p)
       THEN rule' = [rule EXCEPT !.absGoModPath = rule.p, !.pc = "done",
                                 !.stats = Append(@, rule.p)]
       ELSE IF HasSeparatorSuffix(rule.p)
       THEN rule' = [rule EXCEPT !.pc = "done", !.stats = Append(@, rule.p)]
       ELSE rule' = [rule EXCEPT !.p = Dir(rule.p), !.stats = Append(@, rule.p)]
    /\ ModRootFrame

\* The condition of the loop fails: p is the working directory
ModRootReachedWorkingDir ==
    /\ rule.name = "modroot"
    /\ rule.pc = "loop"
    /\ rule.p = rule.absWorkingDir
    /\ rule' = [rule EXCEPT !.pc = "done"]
    /\ ModRootFrame

NextModRoot == ModRootStart \/ ModRootStep \/ ModRootReachedWorkingDir

\* load runs on one goroutine: a step that can be taken is taken
SpecModRoot == InitModRoot /\ [][NextModRoot]_vars /\ WF_vars(NextModRoot)

-----------------------------------------------------------------------------
(* filterOutGeneratedGoFiles on inputs longer than the channels are wide,   *)
(* every path readable, under a scheduler that lets each goroutine run:     *)
(* the producer blocks while posCh is full, a worker while filteredCh is.   *)

\* The longest input: one path more than posCh holds
MaxLongPaths == 11

\* Hand-written files only, generated files only, and a generated file
\* followed by hand-written ones
LongInputs(n) ==
    {[i \in 1..n |-> "/p/a.go"], [i \in 1..n |-> "/p/gen.go"],
     [i \in 1..n |-> IF i = 1 THEN "/p/gen.go" ELSE "/p/a.go"]}

InitFilterFair ==
    /\ \E n \in {2, MaxPaths, MaxLongPaths}, workers \in 1..MaxWorkers :
          \E in \in LongInputs(n) :
              flt = [pc |-> "start", in |-> in, workers |-> workers,
                     next |-> 1, posCh |-> << >>, posClosed |-> FALSE,
                     w |-> [i \in 1..workers |-> [pc |-> "recv", pi |-> NoPosition]],
                     filteredCh |-> << >>, filteredClosed |-> FALSE,
                     ordered |-> << >>, filtered |-> << >>]
    /\ gosec = AnalyzerIdle /\ pkg = << >> /\ walk = AnalyzerIdle /\ matched = << >>
    /\ is32Bit = FALSE /\ rule = RuleIdle

\* Each goroutine that can run does run: the producer, each worker, the
\* goroutine that waits for the workers, and the caller
FilterFairness ==
    /\ WF_vars(FilterCall)
    /\ WF_vars(Produce)
    /\ WF_vars(ClosePosCh)
    /\ \A i \in 1..MaxWorkers : WF_vars(WorkerTake(i) \/ WorkerSend(i) \/ WorkerDone(i))
    /\ WF_vars(CloseFilteredCh)
    /\ WF_vars(Collect \/ FilterReturn)

SpecFilterFair == InitFilterFair /\ [][NextFilter]_vars /\ FilterFairness

-----------------------------------------------------------------------------
(* Suppression, as the comments of a file say it, without the walk.        *)

\* The nodes of the subtree of n
Subtree(n) == {d \in Nodes : n \in Ancestors(d)}

\* The token in force: the alternative when the configuration sets one
ActiveTag(g) == IF g.config.altSet THEN g.config.alt ELSE NoSecDefaultTag

\* Some comment group of n holds the token and names no rule
CarriesBlanketGroup(g, file, n) ==
    \E i \in 1..Len(file.Comments[n]) :
        /\ Contains(Chars(file.Comments[n][i]), Chars(ActiveTag(g)))
        /\ FindAllRuleIDs(Chars(file.Comments[n][i]), 1) = << >>

\* The calls of rule.Match made on node n of file fi, in order
MatchesOn(fi, n) == SelectSeq(matched, LAMBDA e : e[1] = fi /\ e[2] = n)

IssuesOn(fi, n) ==
    SelectSeq(gosec.issues, LAMBDA is : is.File = pkg[fi].Name /\ is.Node = n)

\* The file fi has been walked to the end
Walked(fi) ==
    /\ fi \in 1..Len(pkg)
    /\ walk.pc \in {"check", "walk", "done"}
    /\ walk.file > fi
    /\ Ext(Chars(pkg[fi].Name)) = Chars(".go")
    /\ ~underTestUtilDirOrPath(Chars(pkg[fi].Name))
    /\ ~reGeneratedGoFileMatch(ReadFile(pkg[fi].Name))

\* C1: with suppression enabled, a node that carries a comment group holding
\* the suppression token and no rule ID has no rule's Match called on it or in
\* its subtree and no issue added for them; a node whose enclosing nodes and
\* itself carry no comment at all has every rule registered for its kind called.
C1_BlanketGroupSuppressesSubtree ==
    ~gosec.ignoreNosec =>
        \A fi \in 1..Len(pkg) : \A n \in Nodes :
            /\ CarriesBlanketGroup(gosec, pkg[fi], n) =>
                  \A d \in Subtree(n) : MatchesOn(fi, d) = << >> /\ IssuesOn(fi, d) = << >>
            /\ (Walked(fi) /\ \A a \in Ancestors(n) : pkg[fi].Comments[a] = << >>) =>
                  MatchesOn(fi, n) =
                      [i \in 1..Len(RegisteredFor(gosec.ruleset, n)) |->
                          <<fi, n, RegisteredFor(gosec.ruleset, n)[i]>>]

\* The rule IDs listed by the suppressing comment of node n: the first comment
\* group of n that holds a suppression token
ListedBy(g, file, n) ==
    LET groups == file.Comments[n]
        i == FirstTagged(groups, ActiveTag(g))
    IN  IF g.ignoreNosec \/ i = 0 THEN {}
        ELSE Range(FindAllRuleIDs(Chars(groups[i]), 1))

\* The rule IDs listed on n or on a node that encloses it
ListedAbove(g, file, n) == UNION {ListedBy(g, file, a) : a \in Ancestors(n)}

\* The calls of rule.Match of one step
NewMatches == SubSeq(matched', Len(matched) + 1, Len(matched'))

\* The rules registered for n whose ID is outside ids, as calls on n
CallsExcept(fi, n, ids) ==
    LET regd == SelectSeq(RegisteredFor(gosec.ruleset, n), LAMBDA id : Chars(id) \notin ids)
    IN  [i \in 1..Len(regd) |-> <<fi, n, regd[i]>>]

\* C2: when a visited node is dispatched, the rules skipped on it are exactly
\* the registered rules whose ID is listed by its suppressing comment or by the
\* suppressing comment of an enclosing node, every other registered rule is
\* called, and that union is the exclusion set in force below the node; when
\* the traversal leaves the node (Visit(nil)) the exclusion sets are again the
\* ones that were in force when the node was entered.
C2_ListedRulesUnionAndRestore ==
    [][/\ (walk.pc = "walk" /\ walk.cur # 0 /\ Len(walk'.stack) = Len(walk.stack) + 1) =>
             /\ NewMatches = CallsExcept(walk.file, walk.cur,
                                         ListedAbove(gosec, pkg[walk.file], walk.cur))
             /\ Head(gosec'.context.Ignores) = ListedAbove(gosec, pkg[walk.file], walk.cur)
       /\ (walk.pc = "walk" /\ walk.cur = 0 /\ Len(walk'.stack) = Len(walk.stack) - 1) =>
             gosec'.context.Ignores = walk.stack[Len(walk.stack)].saved]_vars

\* C2 witness: the file is walked; the assignment lists G702 and the call
\* inside it lists G706, so neither rule was called on that call, while the
\* call outside the assignment had both rules called, and no exclusion is left.
C2_Witness ==
    /\ walk.pc = "done"
    /\ ~gosec.ignoreNosec
    /\ Len(pkg) = 1
    /\ ListedBy(gosec, pkg[1], 1) = {}
    /\ ListedBy(gosec, pkg[1], 2) = {Chars("G702")}
    /\ ListedBy(gosec, pkg[1], 3) = {Chars("G706")}
    /\ MatchesOn(1, 2) = << >>
    /\ MatchesOn(1, 3) = << >>
    /\ MatchesOn(1, 4) = <<<<1, 4, "G702">>, <<1, 4, "G706">>>>
    /\ gosec.context.Ignores = << >>

\* The file at fi is generated: the header regexp matches its text
IsGenerated(fi) == reGeneratedGoFileMatch(ReadFile(pkg[fi].Name))

\* C4: after Check on a package of one generated file and one hand-written
\* file, NumFiles counts the hand-written file only, no rule was called on a
\* node of the generated file, and every issue belongs to the hand-written file.
C4_GeneratedFileNotCounted ==
    (/\ walk.pc = "done"
     /\ Len(pkg) = 2
     /\ {pkg[1].Name, pkg[2].Name} = {"/p/gen.go", "/p/a.go"}) =>
        /\ gosec.stats.NumFiles = 1
        /\ \A i \in 1..Len(matched) : ~IsGenerated(matched[i][1])
        /\ \A i \in 1..Len(gosec.issues) : gosec.issues[i].File = "/p/a.go"

\* C5: every call of the time.Now rule on a call of time.Now() has left an
\* Issue of that rule for the node, with Severity High and Confidence High,
\* and NumFound counts the issues.
C5_TimeNowYieldsIssue ==
    \A i \in 1..Len(matched) :
        (/\ RuleBuilder(matched[i][3]) = "NewTimeNowRefusal"
         /\ pkg[matched[i][1]].Call[matched[i][2]] = TimeNowCall) =>
            /\ \E j \in 1..Len(gosec.issues) :
                  /\ gosec.issues[j].RuleID = matched[i][3]
                  /\ gosec.issues[j].File = pkg[matched[i][1]].Name
                  /\ gosec.issues[j].Node = matched[i][2]
                  /\ gosec.issues[j].Severity = "High"
                  /\ gosec.issues[j].Confidence = "High"
            /\ gosec.stats.NumFound >= 1

-----------------------------------------------------------------------------
(* The rules, one call of Match at a time.                                 *)

Unsigned(kind) == kind \in {"uint8", "uint16", "uint32", "uint64", "uint"}

\* The width in bits of an integer kind on the host
Bits(kind, b32) ==
    CASE kind \in {"int8", "uint8"} -> 8
      [] kind \in {"int16", "uint16"} -> 16
      [] kind \in {"int32", "uint32"} -> 32
      [] kind \in {"int64", "uint64"} -> 64
      [] OTHER -> IF b32 THEN 32 ELSE 64

\* The uint-to-uint table: to uint64 never; to uint32 from uint64, or from uint
\* on a 64-bit host; to uint16 from uint, uint32 or uint64; to uint8 from a
\* wider source; to uint from uint64 on a 32-bit host
UintTable(src, dest, b32) ==
    CASE dest = "uint64" -> FALSE
      [] dest = "uint32" -> src = "uint64" \/ (src = "uint" /\ ~b32)
      [] dest = "uint16" -> src \in {"uint", "uint32", "uint64"}
      [] dest = "uint8" -> Bits(src, b32) > 8
      [] dest = "uint" -> src = "uint64" /\ b32

\* The same table for the signed kinds
IntTable(src, dest, b32) ==
    CASE dest = "int64" -> FALSE
      [] dest = "int32" -> src = "int64" \/ (src = "int" /\ ~b32)
      [] dest = "int16" -> src \in {"int", "int32", "int64"}
      [] dest = "int8" -> Bits(src, b32) > 8
      [] dest = "int" -> src = "int64" /\ b32

ConversionFlagged(src, dest, b32) ==
    IF src = dest THEN FALSE
    ELSE IF Unsigned(src) /\ Unsigned(dest) THEN UintTable(src, dest, b32)
    ELSE IF ~Unsigned(src) /\ ~Unsigned(dest) THEN IntTable(src, dest, b32)
    ELSE TRUE

\* The rule has been called on T(x), x neither an integer literal nor len(...),
\* both kinds among the ten integer kinds, in a file that is not a .pb.go file
IntegerConversionDone ==
    /\ rule.name = "integer"
    /\ rule.out # NoResult
    /\ ~HasSuffix(Chars(rule.file), Chars(".pb.go"))
    /\ rule.call.argForm \in {"CallOther", "Other"}
    /\ rule.call.argT \in IntKinds
    /\ rule.call.fnT \in IntKinds

\* C9: for a conversion T(x) between integer kinds, x neither an integer
\* literal nor a len(...) call, outside .pb.go files, on either host: no issue
\* for identical kinds; for two unsigned kinds an issue iff the uint-to-uint
\* table says unsafe; for two signed kinds an issue iff the mirrored table says
\* unsafe; an issue whenever the signedness differs.
C9_IntegerConversionTables ==
    IntegerConversionDone =>
        rule.out = IF ConversionFlagged(rule.call.argT, rule.call.fnT, is32Bit)
                   THEN IntegerIssue ELSE RetNil

\* C9 witness: on a 32-bit host uint(x) with x a uint64 is flagged, a case
\* where the host decides.
C9_Witness ==
    /\ IntegerConversionDone
    /\ is32Bit
    /\ rule.call.argT = "uint64"
    /\ rule.call.fnT = "uint"
    /\ rule.out = IntegerIssue

\* The rule has been called on T(len(...)), T one of the ten integer kinds, in
\* a file that is not a .pb.go file
LenConversionDone ==
    /\ rule.name = "integer"
    /\ rule.out # NoResult
    /\ ~HasSuffix(Chars(rule.file), Chars(".pb.go"))
    /\ rule.call.argForm = "CallLen"
    /\ rule.call.funName \in IntKinds

\* C10: for T(len(...)) outside .pb.go files, on a 64-bit host an issue iff T
\* is int8, uint8, int16, uint16, int32 or uint32; on a 32-bit host iff T is
\* int8, uint8, int16 or uint16.
C10_LenConversionTables ==
    LenConversionDone =>
        rule.out = IF rule.call.funName \in
                          (IF is32Bit THEN {"int8", "uint8", "int16", "uint16"}
                           ELSE {"int8", "uint8", "int16", "uint16", "int32", "uint32"})
                   THEN IntegerIssue ELSE RetNil

\* C10 witness: on a 32-bit host int32(len(...)) is not flagged.
C10_Witness ==
    /\ LenConversionDone
    /\ is32Bit
    /\ rule.call.funName = "int32"
    /\ rule.out = RetNil

\* mapRanging.Match has been called on a range statement
MapRangingDone == rule.name = "mapRanging" /\ rule.out # NoResult

\* The operand of the range has a map type, named or not
OverMap(r) == TypeOf(r.X.src).under = "Map"

\* for k := range ...: the key is the identifier k and there is no value
KeyOnly(r) == r.Key = Id("k") /\ r.Value = NilLeaf

\* s = append(s, k) with s of slice type
IsKeyAppend(st) ==
    /\ st.type = "AssignStmt"
    /\ Len(st.Lhs) = 1
    /\ st.Lhs[1].type = "Ident"
    /\ TypeOf(st.Lhs[1].src).under = "Slice"
    /\ st.Rhs[1] = CallExpr(Id("append"), <<"s", "k">>)

\* delete(m, k)
IsKeyDelete(st) == st = ExprStmt(CallExpr(Id("delete"), <<"m", "k">>))

\* dst[k] = v
IsCopyOfValue(st) == st = AssignStmt(<<IndexExpr(Id("dst"), Id("k"))>>, <<IdentExpr("v")>>)

\* dst[k] = m[k]
IsCopyByIndex(r, st) ==
    st = AssignStmt(<<IndexExpr(Id("dst"), Id("k"))>>, <<IndexExpr(r.X, Id("k"))>>)

\* The range statement is one of the permitted forms
Permitted(r) ==
    /\ Len(r.Body) = 1
    /\ \/ KeyOnly(r) /\ IsKeyAppend(r.Body[1])
       \/ KeyOnly(r) /\ IsKeyDelete(r.Body[1])
       \/ KeyOnly(r) /\ IsCopyByIndex(r, r.Body[1])
       \/ r.Key = Id("k") /\ r.Value = Id("v") /\ IsCopyOfValue(r.Body[1])

\* C6: for every range over a map whose body is not one of the permitted forms
\* (key append, delete of the range key, map copy), the body dst[k] = other[k]
\* and the body of one expression statement that is not a call among them,
\* mapRanging.Match returns an Issue: it neither panics nor returns an error.
C6_NonPermittedBodyYieldsIssue ==
    (MapRangingDone /\ OverMap(rule.range) /\ ~Permitted(rule.range)) =>
        rule.out.kind = "issue"

\* C7: mapRanging.Match returns nil for for k := range m { s = append(s, k) }
\* with s a slice, for k := range m { delete(m, k) }, for k, v := range m
\* { dst[k] = v } and for k := range m { dst[k] = m[k] }, and returns no issue
\* for a range whose operand is not a map.
C7_PermittedFormsYieldNoIssue ==
    MapRangingDone =>
        /\ (OverMap(rule.range) /\ Permitted(rule.range)) => rule.out = RetNil
        /\ (TypeOf(rule.range.X.src).under \notin {"Map", "nil"}) => rule.out.kind # "issue"

\* for k, v := range m { _ = k; _ = v }
TwoBlankAssignments ==
    RangeStmt(Id("m"), Id("k"), Id("v"),
              <<AssignStmt(<<IdentExpr("_")>>, <<IdentExpr("k")>>),
                AssignStmt(<<IdentExpr("_")>>, <<IdentExpr("v")>>)>>)

\* for k, v := range m { _, _ = k, v }
OneBlankAssignment ==
    RangeStmt(Id("m"), Id("k"), Id("v"),
              <<AssignStmt(<<IdentExpr("_"), IdentExpr("_")>>, <<IdentExpr("k"), IdentExpr("v")>>)>>)

\* C8 as stated: for k, v := range m { _ = k; _ = v } yields one issue whose
\* message is the value message.
C8_TwoStatementBodyValueMessage ==
    (MapRangingDone /\ rule.range = TwoBlankAssignments) => rule.out = MapIssue(MsgValue)

\* C8 amended: for k, v := range m { _ = k; _ = v } yields one issue whose
\* message is the statement-count message for 2 statements; the value message
\* is the one for the single statement _, _ = k, v.
C8_TwoStatementBodyCountMessage ==
    MapRangingDone =>
        /\ rule.range = TwoBlankAssignments =>
              rule.out = MapIssue("expected exactly 1 statement (either append, delete, or copying to another map) in a range with a map, got 2")
        /\ rule.range = OneBlankAssignment => rule.out = MapIssue(MsgValue)

\* C8 witness: the rule has answered for k, v := range m { _ = k; _ = v } with
\* the statement-count message.
C8_Witness ==
    /\ MapRangingDone
    /\ rule.range = TwoBlankAssignments
    /\ rule.out.kind = "issue"
    /\ rule.out.What =
          "expected exactly 1 statement (either append, delete, or copying to another map) in a range with a map, got 2"

-----------------------------------------------------------------------------
(* The filter of generated files.                                          *)

\* The input paths classified as non-generated, in input order, each as often
\* as it occurs
NonGenerated(in) == SelectSeq(in, LAMBDA p : ~reGeneratedGoFileMatch(ReadFile(p)))

\* C3: whatever the input sequence of paths, the number of workers and the
\* interleaving of producer, workers and consumer, filterOutGeneratedGoFiles
\* returns exactly the input paths classified as non-generated, each as many
\* times as it occurs, in input order; it panics only on a file it cannot read.
C3_FilterKeepsInputOrder ==
    /\ flt.pc = "returned" => flt.filtered = NonGenerated(flt.in)
    /\ flt.pc = "panic" => \E i \in 1..Len(flt.in) : ~Readable(flt.in[i])

\* C3 witness: the filter has returned for an input that holds a generated
\* file and the same hand-written path twice, after the consumer received two
\* positions in the reverse of their input order.
C3_Witness ==
    /\ flt.pc = "returned"
    /\ \E i, j \in 1..Len(flt.in) : i < j /\ flt.in[i] = flt.in[j] /\ flt.in[i] = "/p/a.go"
    /\ \E i \in 1..Len(flt.in) : flt.in[i] = "/p/gen.go"
    /\ \E i, j \in 1..Len(flt.ordered) : i < j /\ flt.ordered[i].pos > flt.ordered[j].pos
    /\ flt.filtered = <<"/p/a.go", "/p/a.go">>

-----------------------------------------------------------------------------
(* The strconv bitsize rule.                                               *)

\* The text of a literal without its underscores
StripUnderscores(t) == SelectSeq(t, LAMBDA c : c # "_")

\* The value of an integer literal of Go: 0x hexadecimal, 0b binary, 0o or a
\* leading 0 octal, else decimal; underscores separate digits
IntLitValue(value) ==
    LET t == StripUnderscores(value)
    IN  IF Len(t) > 2 /\ t[1] = "0" /\ t[2] \in {"x", "X"} THEN DigitsValue(SubSeq(t, 3, Len(t)), 16)
        ELSE IF Len(t) > 2 /\ t[1] = "0" /\ t[2] \in {"b", "B"} THEN DigitsValue(SubSeq(t, 3, Len(t)), 2)
        ELSE IF Len(t) > 2 /\ t[1] = "0" /\ t[2] \in {"o", "O"} THEN DigitsValue(SubSeq(t, 3, Len(t)), 8)
        ELSE IF Len(t) > 1 /\ t[1] = "0" THEN DigitsValue(Tail(t), 8)
        ELSE DigitsValue(t, 10)

\* The rule has seen u, err := strconv.ParseUint(s, 10, b), b an integer
\* literal, and then T(u) with T one of int16, int32, int64, int
ParseUintThenConversion ==
    /\ rule.name = "bitsize"
    /\ rule.pc = "done"
    /\ rule.assign.lhs0 = Ident("u", "u")
    /\ rule.assign.rhs = "strconv.ParseUint"
    /\ rule.assign.bitSize.type = "BasicLit"
    /\ rule.arg = Ident("u", "u")
    /\ rule.fun.type = "Ident"
    /\ rule.fun.src \in {"int16", "int32", "int64", "int"}

BitSizeTooLarge(dest, b) ==
    \/ dest = "int16" /\ b >= 16
    \/ dest = "int32" /\ b >= 32
    \/ dest = "int64" /\ b >= 64
    \/ dest = "int" /\ (b = 32 \/ b >= 64)

\* C11: for a variable assigned from strconv.ParseUint(_, _, b), b an integer
\* literal, and later passed as the sole argument to int16, int32, int64 or
\* int, the rule emits an issue iff (int16 and b >= 16) or (int32 and b >= 32)
\* or (int64 and b >= 64) or (int and (b = 32 or b >= 64)), and the message is
\* Overflow in bitSize of <b> for "<dest>".
C11_BitSizeThresholds ==
    ParseUintThenConversion =>
        LET b == IntLitValue(rule.assign.bitSize.Value)
        IN  rule.out = IF BitSizeTooLarge(rule.fun.src, b)
                       THEN BitSizeIssue("Overflow in bitSize of " \o FormatD(b) \o " for \""
                                             \o rule.fun.src \o "\"")
                       ELSE RetNil

-----------------------------------------------------------------------------
(* The order of the rules.                                                 *)

\* The IDs of a sequence grow strictly
Ascending(ids) == \A i, j \in 1..Len(ids) : i < j => StrLess(ids[i], ids[j])

\* C12: whatever order the range over the definition map yields, after
\* LoadRules the rules registered for each node kind are all the rules that
\* ask for the kind, in ascending order of rule ID, the rules are called on
\* each node in that order, and the issues of one node are in that order: the
\* registered rules, and with them the issues, do not depend on the map order.
C12_RulesInAscendingIDOrder ==
    walk.pc \in {"check", "walk", "done"} =>
        /\ \A k \in NodeKinds :
              /\ Ascending(gosec.ruleset[k])
              /\ Range(gosec.ruleset[k]) = {id \in RuleIDs : k \in BuilderNodes(RuleBuilder(id))}
        /\ \A fi \in 1..Len(pkg) : \A n \in Nodes :
              Ascending([i \in 1..Len(MatchesOn(fi, n)) |-> MatchesOn(fi, n)[i][3]])
        /\ \A fi \in 1..Len(pkg) : \A n \in Nodes :
              Ascending([i \in 1..Len(IssuesOn(fi, n)) |-> IssuesOn(fi, n)[i].RuleID])

\* C12 witness: the range over the map yielded G706 before G702, and on the
\* second call of the walked file G702 was called before G706.
C12_Witness ==
    /\ walk.pc = "done"
    /\ walk.ids = <<"G706", "G702">>
    /\ gosec.ruleset["CallExpr"] = <<"G702", "G706">>
    /\ MatchesOn(1, 4) = <<<<1, 4, "G702">>, <<1, 4, "G706">>>>

-----------------------------------------------------------------------------
(* The metrics.                                                            *)

\* Visit is called on node n of file fi: no node that encloses n has made
\* Visit return nil
Visited(fi, n) ==
    \A a \in Ancestors(n) \ {n} : ~ignore(gosec, pkg[fi], a).all

\* The comment groups of n that hold the suppression token
TokenGroups(g, file, n) ==
    Cardinality({i \in 1..Len(file.Comments[n]) :
                    Contains(Chars(file.Comments[n][i]), Chars(ActiveTag(g)))})

\* The token-bearing comment groups of the visited nodes among 1..n of file fi
RECURSIVE TokenGroupsUpTo(_, _)
TokenGroupsUpTo(fi, n) ==
    IF n = 0 THEN 0
    ELSE TokenGroupsUpTo(fi, n - 1)
            + (IF Visited(fi, n) THEN TokenGroups(gosec, pkg[fi], n) ELSE 0)

\* The same over the walked files among 1..fi
RECURSIVE TokenGroupsOfFiles(_)
TokenGroupsOfFiles(fi) ==
    IF fi = 0 THEN 0
    ELSE TokenGroupsOfFiles(fi - 1) + (IF Walked(fi) THEN TokenGroupsUpTo(fi, 4) ELSE 0)

\* C13: with suppression enabled and the default token, when Check is done
\* NumNosec is the number of comment groups that hold the suppression token
\* and are attached to a visited node, one for each group, several for a node
\* with several groups.
C13_NumNosecCountsGroups ==
    (walk.pc = "done" /\ ~gosec.ignoreNosec /\ ~gosec.config.altSet) =>
        gosec.stats.NumNosec = TokenGroupsOfFiles(Len(pkg))

\* What the call of Match recorded as e returned
ResultOf(e) == RuleMatch(e[3], e[2], pkg[e[1]], is32Bit)

\* The issues of the calls of Match that returned one, in the order of the calls
IssuesOfMatches ==
    LET found == SelectSeq(matched, LAMBDA e : ResultOf(e).kind = "issue")
    IN  [i \in 1..Len(found) |->
            Issue(found[i][3], ResultOf(found[i]), pkg[found[i][1]], found[i][2])]

\* The calls due on node n of file fi: the registered rules that no comment
\* on n or above it lists, in registration order
CallsDue(fi, n) == CallsExcept(fi, n, ListedAbove(gosec, pkg[fi], n))

\* C14: a Match that returns an error does not abort the walk: on the node of
\* the error every rule due was called, in order; in a file that has been
\* walked every node that is visited and not suppressed has had every rule due
\* called; and the issues are those of the calls that returned one, none lost
\* or altered, with NumFound their number.
C14_RuleErrorDoesNotAbortWalk ==
    /\ \A i \in 1..Len(matched) :
          ResultOf(matched[i]).kind = "error" =>
              MatchesOn(matched[i][1], matched[i][2]) = CallsDue(matched[i][1], matched[i][2])
    /\ \A fi \in 1..Len(pkg) : \A n \in Nodes :
          (Walked(fi) /\ Visited(fi, n) /\ ~ignore(gosec, pkg[fi], n).all) =>
              MatchesOn(fi, n) = CallsDue(fi, n)
    /\ walk.pc \in {"check", "walk", "done"} =>
          /\ gosec.issues = IssuesOfMatches
          /\ gosec.stats.NumFound = Len(gosec.issues)

\* C14 witness: two files are walked; the first call of the second file made
\* the rule with the smaller ID return an error, after the first file had
\* given an issue; the rule after it was called on the same node, and the
\* next node gave the second issue.
C14_Witness ==
    /\ walk.pc = "done"
    /\ Len(pkg) = 2
    /\ Walked(1) /\ Walked(2)
    /\ \E i, j, k \in 1..Len(matched) :
          /\ i < j /\ j < k
          /\ ResultOf(matched[i]).kind = "issue" /\ matched[i][1] = 1
          /\ matched[j] = <<2, 3, "G702">> /\ ResultOf(matched[j]).kind = "error"
          /\ matched[j + 1] = <<2, 3, "G706">>
          /\ ResultOf(matched[k]).kind = "issue" /\ matched[k][1] = 2 /\ matched[k][2] = 4
    /\ Len(gosec.issues) = 2
    /\ gosec.stats.NumFound = 2


-----------------------------------------------------------------------------
(* Process over several paths.                                             *)

\* C15: in one call of Process, for every path whose files are collected, the
\* collection applies the build tags passed to Process, and for every path
\* that reaches the package loader, the loader gets no build flags.
C15_BuildTagsAppliedToEveryPath ==
    \A i \in 1..Len(walk.loads) :
        /\ walk.loads[i].stage \in {"imported", "loaded"}
              => walk.loads[i].BuildTags = pkg.buildTags
        /\ walk.loads[i].stage = "loaded" => walk.loads[i].loaderFlags = << >>

\* The same, for the paths before which no path has reached the loader
C15_FirstLoadedPathOnly ==
    \A i \in 1..Len(walk.loads) :
        (\A j \in 1..(i - 1) : walk.loads[j].stage # "loaded") =>
            /\ walk.loads[i].stage \in {"imported", "loaded"}
                  => walk.loads[i].BuildTags = pkg.buildTags
            /\ walk.loads[i].stage = "loaded" => walk.loads[i].loaderFlags = << >>

\* The step of Process that loads the path at walk.i
LoadOfPath == walk.pc = "load" /\ walk'.pc = "pkgs"

NoBuildableText ==
    <<"n", "o", " ", "b", "u", "i", "l", "d", "a", "b", "l", "e", " ", "G", "o", " ",
      "s", "o", "u", "r", "c", "e", " ", "f", "i", "l", "e", "s", " ", "i", "n">>

\* The error map with Error{0, 0, message} appended under the path
WithLoadError(errors, path, message) ==
    [k \in DOMAIN errors \cup {path} |->
        IF k # path THEN errors[k]
        ELSE IF path \in DOMAIN errors
             THEN Append(errors[path], [Line |-> 0, Column |-> 0, Err |-> Join(message)])
             ELSE <<[Line |-> 0, Column |-> 0, Err |-> Join(message)]>>]

\* C16: when load returns an error for a path, an Error with line 0 and
\* column 0 is appended under that path, unless the message contains "no
\* buildable Go source files in", and then the error map stays as it was; in
\* both cases Process goes on to the next path (or, after the last one,
\* returns nil) with the error map untouched in between, and what Process
\* returns is never the error of a load.
C16_LoadErrorRecordedAndRunContinues ==
    [][/\ (LoadOfPath /\ walk'.err # NilErr) =>
              gosec'.errors =
                  IF Contains(walk'.err, NoBuildableText) THEN gosec.errors
                  ELSE WithLoadError(gosec.errors, pkg.packagePaths[walk.i], walk'.err)
       /\ (LoadOfPath /\ walk'.err = NilErr) => gosec'.errors = gosec.errors
       /\ (walk.pc = "pkgs" /\ walk.err # NilErr) =>
              /\ walk'.pc = "load" /\ walk'.i = walk.i + 1 /\ walk'.ret = "none"
              /\ gosec'.errors = gosec.errors
       /\ (walk.pc = "load" /\ walk.i <= Len(pkg.packagePaths)) => LoadOfPath
       /\ (walk.pc = "load" /\ walk.i > Len(pkg.packagePaths)) => walk'.ret = "nil"
      ]_vars

\* Process has returned nil after a first path whose load error is dropped
\* and a second path whose load error is kept
C16_Witness ==
    /\ walk.pc = "done" /\ walk.ret = "nil"
    /\ pkg.buildTags = << >>
    /\ pkg.packagePaths = <<"/p/tagged", "/p/drv">>
    /\ DOMAIN gosec.errors = {"/p/drv"}
    /\ Len(gosec.errors["/p/drv"]) = 1
    /\ gosec.errors["/p/drv"][1].Line = 0 /\ gosec.errors["/p/drv"][1].Column = 0

\* By Line ascending and, among equal lines, by Column ascending
ByLineThenColumn(errs) ==
    \A i, j \in 1..Len(errs) :
        i < j => \/ errs[i].Line < errs[j].Line
                 \/ errs[i].Line = errs[j].Line /\ errs[i].Column <= errs[j].Column

Occurrences(errs, e) == Cardinality({i \in 1..Len(errs) : errs[i] = e})

SameEntries(a, b) ==
    /\ Len(a) = Len(b)
    /\ \A i \in 1..Len(a) : Occurrences(a, a[i]) = Occurrences(b, a[i])

\* C17: whenever Process has returned, with nil or with an error, every
\* file's sequence in the error map is ordered by Line and then by Column,
\* and the sorting at the end of Process keeps exactly the harvested entries
\* of every file.
C17_ErrorMapSortedOnEveryReturn ==
    /\ [](walk.pc = "done" => \A k \in DOMAIN gosec.errors : ByLineThenColumn(gosec.errors[k]))
    /\ [][(walk.pc = "load" /\ walk'.pc = "done") =>
              /\ DOMAIN gosec'.errors = DOMAIN gosec.errors
              /\ \A k \in DOMAIN gosec.errors : SameEntries(gosec.errors[k], gosec'.errors[k])]_vars

\* The same, for the returns of Process with nil only
C17_ErrorMapSortedOnNilReturn ==
    /\ []((walk.pc = "done" /\ walk.ret = "nil")
             => \A k \in DOMAIN gosec.errors : ByLineThenColumn(gosec.errors[k]))
    /\ [][(walk.pc = "load" /\ walk'.pc = "done") =>
              /\ DOMAIN gosec'.errors = DOMAIN gosec.errors
              /\ \A k \in DOMAIN gosec.errors : SameEntries(gosec.errors[k], gosec'.errors[k])]_vars

-----------------------------------------------------------------------------
(* The header of generated files.                                          *)

\* The first line of the text that is not empty (no characters), if any
FirstNonEmptyLine(blob) ==
    LET lines == Split(blob, "\n")
        full == {i \in 1..Len(lines) : lines[i] # << >>}
    IN  IF full = {} THEN << >>
        ELSE lines[CHOOSE i \in full : \A j \in full : i <= j]

\* A line matches ^// Code generated .* DO NOT EDIT\.
IsHeaderLine(line) ==
    /\ Len(line) >= 18 /\ SubSeq(line, 1, 18) = Chars("// Code generated ")
    /\ \E i \in 19..(Len(line) - 12) : SubSeq(line, i, i + 12) = Chars(" DO NOT EDIT.")

Dropped(path) == \A k \in 1..Len(flt.filtered) : flt.filtered[k] # path

\* C18: the filter drops a file iff its first non-empty line matches
\* ^// Code generated .* DO NOT EDIT\. ; a header preceded only by empty lines
\* drops the file, a header after the first non-empty line does not.
C18_DropsByFirstNonEmptyLine ==
    flt.pc = "returned" =>
        \A i \in 1..Len(flt.in) :
            Dropped(flt.in[i]) <=> IsHeaderLine(FirstNonEmptyLine(ReadFile(flt.in[i])))

\* The same by the first line of the file, empty or not
C18_DropsByFirstLine ==
    flt.pc = "returned" =>
        \A i \in 1..Len(flt.in) :
            Dropped(flt.in[i]) <=> IsHeaderLine(Split(ReadFile(flt.in[i]), "\n")[1])

-----------------------------------------------------------------------------
(* SARIF locations.                                                        *)

\* The roots r of the list such that the file starts with r followed by /
RootsOf(file, rootPaths) ==
    {i \in 1..Len(rootPaths) : HasPrefix(Text(file), Text(rootPaths[i]) \o <<"/">>)}

\* The file without its longest such root and the / after it; the file
\* itself when there is none
WithoutLongestRoot(file, rootPaths) ==
    LET m == RootsOf(file, rootPaths)
    IN  IF m = {} THEN Text(file)
        ELSE LET i == CHOOSE j \in m :
                          \A k \in m : Len(Text(rootPaths[k])) <= Len(Text(rootPaths[j]))
             IN  SubSeq(Text(file), Len(Text(rootPaths[i])) + 2, Len(Text(file)))

\* C19: for every file path and every list of root paths in any order, the
\* artifact URI is the file path without the longest root r such that the
\* path starts with r followed by /; with no such root it is the file path.
C19_UriStripsLongestRoot ==
    (walk.pc = "returned" /\ ~walk.location.nil) =>
        walk.location.URI = Join(WithoutLongestRoot(walk.issue.File, walk.rootPaths))

\* The same for the lists in which the last root that is a prefix of the file
\* is also its longest root followed by /
C19_UriWhenLastPrefixIsLongestRoot ==
    (/\ walk.pc = "returned" /\ ~walk.location.nil
     /\ \E i \in RootsOf(walk.issue.File, walk.rootPaths) :
           /\ \A k \in RootsOf(walk.issue.File, walk.rootPaths) :
                 Len(Text(walk.rootPaths[k])) <= Len(Text(walk.rootPaths[i]))
           /\ \A k \in (i + 1)..Len(walk.rootPaths) :
                 ~HasPrefix(Text(walk.issue.File), Text(walk.rootPaths[k])))
    => walk.location.URI = Join(WithoutLongestRoot(walk.issue.File, walk.rootPaths))

\* An unsigned decimal number: digits, at least one
IsUnsignedDecimal(t) == t # << >> /\ \A i \in 1..Len(t) : t[i] \in Digits

Dashes(t) == {i \in 1..Len(t) : t[i] = "-"}

\* The text before the first dash (all of it when there is none), and the
\* text between the first dash and the second (or the end)
StartText(t) ==
    IF Dashes(t) = {} THEN t
    ELSE SubSeq(t, 1, (CHOOSE i \in Dashes(t) : \A j \in Dashes(t) : i <= j) - 1)

EndText(t) ==
    LET first == CHOOSE i \in Dashes(t) : \A j \in Dashes(t) : i <= j
        later == {i \in Dashes(t) : i > first}
    IN  IF later = {} THEN SubSeq(t, first + 1, Len(t))
        ELSE SubSeq(t, first + 1, (CHOOSE i \in later : \A j \in later : i <= j) - 1)

\* C20: buildSarifLocation reads Issue.Line as start or start-end: a single
\* number gives endLine = startLine, a range gives both bounds from the
\* string, and the column is both startColumn and endColumn; when the start
\* line, the end line or the column is not an unsigned decimal number, the
\* call returns an error and no location.
C20_LineRangeParsedOrError ==
    walk.pc = "returned" =>
        LET line == Text(walk.issue.Line)
            col == Text(walk.issue.Col)
            single == Dashes(line) = {}
            malformed == \/ ~IsUnsignedDecimal(StartText(line))
                         \/ ~single /\ ~IsUnsignedDecimal(EndText(line))
                         \/ ~IsUnsignedDecimal(col)
        IN  /\ malformed => walk.location.nil /\ walk.err \notin {"nil", "none"}
            /\ (~malformed /\ Cardinality(Dashes(line)) <= 1) =>
                  /\ ~walk.location.nil /\ walk.err = "nil"
                  /\ walk.location.StartLine = DigitsValue(StartText(line), 10)
                  /\ walk.location.EndLine =
                        IF single THEN walk.location.StartLine
                        ELSE DigitsValue(EndText(line), 10)
                  /\ walk.location.StartColumn = DigitsValue(col, 10)
                  /\ walk.location.EndColumn = DigitsValue(col, 10)

\* The call has returned a location for the line "3-7": lines 3 to 7
C20_Witness ==
    /\ walk.pc = "returned"
    /\ walk.issue.Line = "3-7" /\ walk.issue.Col = "4"
    /\ ~walk.location.nil
    /\ walk.location.StartLine = 3 /\ walk.location.EndLine = 7
    /\ walk.location.StartColumn = 4 /\ walk.location.EndColumn = 4

-----------------------------------------------------------------------------
(* The order of the issues in a report.                                    *)

\* The number before the first dash of Line, 0 when that text is no number
StartLineNumber(line) ==
    LET t == StartText(Text(line))
        u == IF t # << >> /\ t[1] = "+" THEN Tail(t) ELSE t
    IN  IF IsUnsignedDecimal(u) THEN DigitsValue(u, 10) ELSE 0

\* (Severity, What, File, start line) of a is lexicographically >= that of b
TupleAtLeast(a, b) ==
    \/ a.Severity > b.Severity
    \/ /\ a.Severity = b.Severity
       /\ \/ StrLess(b.What, a.What)
          \/ /\ a.What = b.What
             /\ \/ StrLess(b.File, a.File)
                \/ /\ a.File = b.File
                   /\ StartLineNumber(a.Line) >= StartLineNumber(b.Line)

\* C21: after sortIssues the slice is a permutation of its input, and of
\* every two neighbours the earlier one's (Severity, What, File, start line)
\* is lexicographically greater than or equal to the later one's.
C21_IssuesSortedDescending ==
    walk.pc = "sorted" =>
        /\ SameEntries(walk.in, walk.issues)
        /\ \A i \in 1..(Len(walk.issues) - 1) :
              TupleAtLeast(walk.issues[i], walk.issues[i + 1])

\* C21 witness: three issues that differ in What, in File and in the start
\* line only have been sorted, and the sort has moved them
C21_Witness ==
    /\ walk.pc = "sorted"
    /\ walk.in = <<SortIssue(2, "test1", "test1", "x"), SortIssue(2, "test1", "test2", "1"),
                   SortIssue(2, "test2", "test1", "1")>>
    /\ walk.issues = <<SortIssue(2, "test2", "test1", "1"), SortIssue(2, "test1", "test2", "1"),
                       SortIssue(2, "test1", "test1", "x")>>

-----------------------------------------------------------------------------
(* Discarded errors.                                                       *)

IsBlank(target) == target.type = "Ident" /\ target.Name = "_"

\* Some right-hand-side call yields an error whose target is the blank
\* identifier: a result of the one call of a multi-valued assignment goes to
\* the target at its position, the value of the j-th expression of a parallel
\* assignment to the j-th target
DiscardsError(stmt) ==
    /\ stmt.type = "AssignStmt"
    /\ \E j \in 1..Len(stmt.Rhs) :
          /\ stmt.Rhs[j].type = "CallExpr"
          /\ \/ /\ stmt.Rhs[j].tv.kind = "Tuple"
                /\ \E p \in 1..Len(stmt.Rhs[j].tv.types) :
                      stmt.Rhs[j].tv.types[p] = "error" /\ IsBlank(stmt.Lhs[p])
             \/ /\ stmt.Rhs[j].tv.kind = "Named" /\ stmt.Rhs[j].tv.name = "error"
                /\ IsBlank(stmt.Lhs[j])

\* C22: the rule returns an issue for an assignment iff some right-hand-side
\* call yields an error-typed result whose corresponding target is the blank
\* identifier; named variables, non-identifier targets and the later calls of
\* a parallel assignment are decided by that same criterion.
C22_IssueIffErrorToBlank ==
    (rule.name = "noErrorCheck" /\ rule.out # NoResult) =>
        (rule.out.kind = "issue" <=> DiscardsError(rule.stmt))

\* The same for the assignments with one expression on the right, all
\* targets identifiers and at most one error among the results
C22_SingleCallIdentifierTargets ==
    (/\ rule.name = "noErrorCheck" /\ rule.out # NoResult
     /\ Len(rule.stmt.Rhs) = 1
     /\ \A i \in 1..Len(rule.stmt.Lhs) : rule.stmt.Lhs[i].type = "Ident"
     /\ Cardinality({p \in 1..Len(rule.stmt.Rhs[1].tv.types) :
                        rule.stmt.Rhs[1].tv.types[p] = "error"}) <= 1)
    => (rule.out.kind = "issue" <=> DiscardsError(rule.stmt))

-----------------------------------------------------------------------------
(* The alternative suppression token.                                      *)

\* No comment group of node n of the file holds the configured alternative
NoAlternativeOn(g, file, n) ==
    \A i \in 1..Len(file.Comments[n]) :
        ~Contains(Chars(file.Comments[n][i]), Chars(g.config.alt))

\* C23: with nosec-alternative set, the alternative replaces the default
\* token: a node on which, and above which, no comment holds the alternative
\* (comments with the default #nosec only, or without a token) has every rule
\* registered for its kind called, and when no comment of the package holds
\* the alternative NumNosec stays 0.
C23_DefaultTokenInertUnderAlternative ==
    (gosec.config.altSet /\ ~gosec.ignoreNosec) =>
        /\ \A fi \in 1..Len(pkg) : \A n \in Nodes :
              (Walked(fi) /\ \A a \in Ancestors(n) : NoAlternativeOn(gosec, pkg[fi], a)) =>
                  MatchesOn(fi, n) =
                      [i \in 1..Len(RegisteredFor(gosec.ruleset, n)) |->
                          <<fi, n, RegisteredFor(gosec.ruleset, n)[i]>>]
        /\ (\A fi \in 1..Len(pkg) : \A n \in Nodes : NoAlternativeOn(gosec, pkg[fi], n)) =>
              gosec.stats.NumNosec = 0

\* The same for the packages in which no comment holds the default #nosec
C23_AlternativeAloneSuppresses ==
    (/\ gosec.config.altSet /\ ~gosec.ignoreNosec
     /\ \A fi \in 1..Len(pkg) : \A n \in Nodes : \A i \in 1..Len(pkg[fi].Comments[n]) :
           ~Contains(Chars(pkg[fi].Comments[n][i]), Chars(NoSecDefaultTag)))
    => /\ \A fi \in 1..Len(pkg) : \A n \in Nodes :
              (Walked(fi) /\ \A a \in Ancestors(n) : NoAlternativeOn(gosec, pkg[fi], a)) =>
                  MatchesOn(fi, n) =
                      [i \in 1..Len(RegisteredFor(gosec.ruleset, n)) |->
                          <<fi, n, RegisteredFor(gosec.ruleset, n)[i]>>]
       /\ (\A fi \in 1..Len(pkg) : \A n \in Nodes : NoAlternativeOn(gosec, pkg[fi], n)) =>
              gosec.stats.NumNosec = 0

-----------------------------------------------------------------------------
(* The analyzer over several calls.                                        *)

ZeroMetrics == [NumFiles |-> 0, NumLines |-> 0, NumNosec |-> 0, NumFound |-> 0]

IsPrefix(a, b) == Len(a) <= Len(b) /\ SubSeq(b, 1, Len(a)) = a

\* C29: after any sequence of LoadRules, Process, Check and Reset calls,
\* NumFound is the number of issues the analyzer holds, and every call that
\* is not Reset leaves the earlier issue list as a prefix of the later one.
C29_NumFoundCountsIssues ==
    /\ [](walk.pc = "life" => gosec.stats.NumFound = Len(gosec.issues))
    /\ [][walk'.last # "Reset" => IsPrefix(gosec.issues, gosec'.issues)]_vars

\* C29 witness: a third call, a Process, has added issues to the ones that an
\* earlier call had found
C29_Witness ==
    /\ walk.pc = "life" /\ walk.calls = 3 /\ walk.last = "Process"
    /\ Len(gosec.issues) = 2
    /\ gosec.stats.NumFound = 2
-----------------------------------------------------------------------------
(* The scratch map of the strconv bitsize rule.                            *)

\* Statement nj of file fi assigns strconv.ParseUint's result to a first
\* target that is an identifier other than the blank one
ParseUintAssignAt(fi, nj) ==
    LET stmt == rule.files[fi].stmts[nj]
    IN  /\ stmt.kind = "assign"
        /\ stmt.assign.rhs = "strconv.ParseUint"
        /\ stmt.assign.lhs0.type = "Ident"
        /\ stmt.assign.lhs0.src # "_"

\* The issues of conversions: every issue of the model is one
ConversionOf(issue) == rule.files[issue.fi].stmts[issue.ni]

\* C25: the strconv bitsize rule flags a conversion int*(x) only if an
\* assignment of x from strconv.ParseUint was visited earlier in the walk of
\* the same file: a conversion visited before the assignment yields no issue,
\* the map in PassedValues is empty at the start of every file walk, and an
\* assignment of one file never causes an issue in another file.
C25_IssueOnlyAfterAssignmentOfSameVariable ==
    rule.name = "scratch" =>
        /\ \A i \in 1..Len(rule.issues) :
              LET issue == rule.issues[i]
              IN  /\ ConversionOf(issue).kind = "conv"
                  /\ \E nj \in 1..(issue.ni - 1) :
                        /\ ParseUintAssignAt(issue.fi, nj)
                        /\ rule.files[issue.fi].stmts[nj].assign.lhs0.src = ConversionOf(issue).arg.src
        /\ (rule.pc = "walk" /\ rule.ni = 1 => rule.passed = << >>)

\* C25, with the variable taken as the map takes it, by the Obj of its
\* identifier: an issue on int*(x) needs an earlier assignment from
\* strconv.ParseUint, in the walk of the same file, to an identifier whose Obj
\* is that of x, and the map is empty when the walk of a file starts.
C25_IssueOnlyAfterAssignmentOfSameObj ==
    rule.name = "scratch" =>
        /\ \A i \in 1..Len(rule.issues) :
              LET issue == rule.issues[i]
              IN  /\ ConversionOf(issue).kind = "conv"
                  /\ \E nj \in 1..(issue.ni - 1) :
                        /\ ParseUintAssignAt(issue.fi, nj)
                        /\ rule.files[issue.fi].stmts[nj].assign.lhs0.Obj = ConversionOf(issue).arg.Obj
        /\ (rule.pc = "walk" /\ rule.ni = 1 => rule.passed = << >>)

\* The first file assigned u from strconv.ParseUint, the second converts its
\* own u before assigning it: the second file has no issue.
C25_NoIssueAcrossFiles ==
    /\ rule.name = "scratch" /\ rule.pc = "file" /\ rule.fi = 3
    /\ rule.files[1].Name = "/p/a.go"
    /\ ParseUintAssignAt(1, 1) /\ rule.files[1].stmts[1].assign.lhs0.src = "u"
    /\ Len(rule.files[2].stmts) = 2
    /\ rule.files[2].stmts[1] = ScratchConv(Id("int64"), Ident("u", "/p/x.pb.go:u"))
    /\ ParseUintAssignAt(2, 2) /\ rule.files[2].stmts[2].assign.lhs0.src = "u"
    /\ \A i \in 1..Len(rule.issues) : rule.issues[i].fi = 1

-----------------------------------------------------------------------------
(* The key-extraction idiom of the map-ranging rule.                       *)

\* The rule was called on for k := range m { s = append(s, ...) }, m a map
\* and s a slice
RangeAppendsToSlice ==
    /\ rule.name = "mapRanging"
    /\ rule.out # NoResult
    /\ rule.range.X = Id("m")
    /\ rule.range.Key = Id("k")
    /\ rule.range.Value = NilLeaf
    /\ Len(rule.range.Body) = 1
    /\ rule.range.Body[1].type = "AssignStmt"
    /\ rule.range.Body[1].Lhs = <<IdentExpr("s")>>
    /\ rule.range.Body[1].Rhs[1].type = "CallExpr"
    /\ rule.range.Body[1].Rhs[1].Fun = Id("append")

\* C26: a range for k := range m over a map whose single body statement is
\* s = append(s, e...) is accepted only when what is appended is the range
\* key k; when anything else is appended (m[k], say) the rule reports an issue.
C26_OnlyKeysAppended ==
    RangeAppendsToSlice =>
        IF rule.range.Body[1].Rhs[1].Args = <<"s", "k">>
        THEN rule.out = RetNil
        ELSE rule.out.kind = "issue"

\* What the rule does with the idiom: the arguments of append are not looked
\* at, and the range is accepted whatever is appended.
C26_AppendAcceptedWhateverAppended ==
    RangeAppendsToSlice => rule.out = RetNil

\* The rule has accepted for k := range m { s = append(s, m[k]) }.
C26_ValueAppendedAccepted ==
    /\ RangeAppendsToSlice
    /\ rule.range.Body[1].Rhs[1].Args = <<"s", "m[k]">>
    /\ rule.out = RetNil

-----------------------------------------------------------------------------
(* The module root.                                                        *)

\* The directories the search may select besides the working directory: the
\* package directory and those above it, below the working directory when
\* the package lies in it, up to the root when it does not
ModRootCandidates ==
    {d \in UpwardPath(rule.abspath) :
        rule.absWorkingDir \in UpwardPath(rule.abspath) => Len(d) > Len(rule.absWorkingDir)}

\* The candidates that hold a regular file go.mod
WithGoMod == {d \in ModRootCandidates : rule.fs[d] = "file"}

\* C27: the search for the module root terminates for every package
\* directory, inside or outside the working directory, and selects the first
\* directory on the upward path from the package directory (the package
\* directory included, the working directory excluded) that holds a regular
\* file go.mod; when there is none before the working directory or the root
\* is reached, it selects the working directory.
C27_ModuleRootSearchTerminatesAndSelects ==
    /\ <>(rule.pc = "done")
    /\ [](rule.pc = "done" =>
            IF WithGoMod = {}
            THEN rule.absGoModPath = rule.absWorkingDir
            ELSE /\ rule.absGoModPath \in WithGoMod
                 /\ \A d \in WithGoMod : Len(d) <= Len(rule.absGoModPath))

\* C27 witness: the package /b/a lies outside the working directory /a, its
\* own go.mod is a directory, and the search selected /b after looking there.
C27_Witness ==
    /\ rule.name = "modroot" /\ rule.pc = "done"
    /\ rule.abspath = <<"/", "b", "/", "a">>
    /\ rule.absWorkingDir = <<"/", "a">>
    /\ rule.fs[<<"/", "b", "/", "a">>] = "dir"
    /\ rule.fs[<<"/", "b">>] = "file"
    /\ rule.stats = <<<<"/", "b", "/", "a">>, <<"/", "b">>>>
    /\ rule.absGoModPath = <<"/", "b">>

\* The package /a/b lies outside the working directory /b, no go.mod is
\* found, and the search stopped at the root and selected /b.
C27_StoppedAtRoot ==
    /\ rule.name = "modroot" /\ rule.pc = "done"
    /\ rule.abspath = <<"/", "a", "/", "b">>
    /\ rule.absWorkingDir = <<"/", "b">>
    /\ rule.stats = <<<<"/", "a", "/", "b">>, <<"/", "a">>, <<"/">>>>
    /\ rule.absGoModPath = <<"/", "b">>

-----------------------------------------------------------------------------
(* The stack of suppression sets.                                          *)

\* C28: the suppression stack is balanced: during the walk of a file its
\* depth is the number of nodes entered and not yet left (a node that an
\* all-rules suppression short-circuits pushes nothing and pops nothing), a
\* Visit(nil) always finds a set to pop, and the stack is empty when the walk
\* of a file starts and when it ends, so that no set of one file is in force
\* in another.
C28_SuppressionStackBalanced ==
    /\ walk.pc = "walk" => Len(gosec.context.Ignores) = Len(walk.stack)
    /\ (walk.pc = "walk" /\ walk.cur = 0 /\ walk.stack # << >>) =>
            Len(gosec.context.Ignores) > 0
    /\ (walk.pc = "walk" /\ walk.cur = Root /\ walk.stack = << >>) =>
            gosec.context.Ignores = << >>
    /\ walk.pc \in {"check", "done"} => gosec.context.Ignores = << >>

\* C28 witness: in the second file of a package two nodes are entered and not
\* left, two sets are on the stack, and a node was short-circuited before.
C28_Witness ==
    /\ walk.pc = "walk"
    /\ walk.file = 2
    /\ Len(walk.stack) = 2
    /\ Len(gosec.context.Ignores) = 2
    /\ gosec.stats.NumNosec > 0

\* The walk of a file has ended after a node of it was short-circuited, and
\* the stack is empty.
C28_EmptyAfterShortCircuit ==
    /\ walk.pc = "check"
    /\ walk.file = 2
    /\ gosec.stats.NumNosec > 0
    /\ gosec.stats.NumFiles = 1
    /\ gosec.context.Ignores = << >>

-----------------------------------------------------------------------------
(* The goroutines of filterOutGeneratedGoFiles.                            *)

\* The positions of the paths whose file is not generated
SurvivorPositions ==
    {i - 1 : i \in {j \in 1..Len(flt.in) : ~reGeneratedGoFileMatch(ReadFile(flt.in[j]))}}

\* The positions a channel or the caller holds
PositionsIn(q) == {q[k].pos : k \in 1..Len(q)}

\* The workers that hold a position to send
Sending == {i \in 1..flt.workers : flt.w[i].pc = "send"}

\* The positions under way: in posCh, in the hands of a worker, in
\* filteredCh and collected
UnderWay ==
    PositionsIn(flt.posCh) \cup {flt.w[i].pi.pos : i \in Sending}
        \cup PositionsIn(flt.filteredCh) \cup PositionsIn(flt.ordered)

\* Every position is in one place at most, and every survivor the producer
\* has sent is in one
EachPathWithOneWorker ==
    /\ Cardinality(UnderWay) =
          Len(flt.posCh) + Cardinality(Sending) + Len(flt.filteredCh) + Len(flt.ordered)
    /\ \A s \in SurvivorPositions : s < flt.next - 1 => s \in UnderWay

\* filteredCh is closed only once every worker is done: no worker is left to
\* send on it
ClosedAfterWorkers ==
    flt.filteredClosed => \A i \in 1..flt.workers : flt.w[i].pc = "done"

\* The caller returns after the closure, with every survivor collected once
ReturnsAfterClosure ==
    flt.pc = "returned" =>
        /\ flt.filteredClosed
        /\ flt.posClosed
        /\ Len(flt.ordered) = Cardinality(SurvivorPositions)
        /\ PositionsIn(flt.ordered) = SurvivorPositions

\* C30: for every input of two or more readable paths, every number of
\* workers from one up and every fair scheduling, filterOutGeneratedGoFiles
\* terminates without deadlock, also when there are more paths or survivors
\* than the ten a channel holds: every path is taken from posCh by exactly
\* one worker, filteredCh is closed only after all the workers are done (no
\* send on a closed channel), and the caller returns after that closure.
C30_FilterTerminatesUnderFairScheduling ==
    /\ <>(flt.pc = "returned")
    /\ [](EachPathWithOneWorker /\ ClosedAfterWorkers /\ ReturnsAfterClosure)

\* C30 witness: eleven hand-written paths and two workers; filteredCh holds
\* its ten and a worker waits to send the eleventh.
C30_Witness ==
    /\ flt.pc = "collect"
    /\ Len(flt.in) = 11
    /\ flt.workers = 2
    /\ Len(flt.filteredCh) = ChanCap
    /\ \E i \in 1..flt.workers : flt.w[i].pc = "send" /\ flt.w[i].pi.pos = 10
    /\ flt.ordered = << >>

\* posCh holds its ten and the producer waits to send the eleventh path.
C30_ProducerWaits ==
    /\ flt.pc = "collect"
    /\ Len(flt.in) = 11
    /\ Len(flt.posCh) = ChanCap
    /\ flt.next = 11

\* The call with eleven hand-written paths has returned all of them.
C30_ReturnedEleven ==
    /\ flt.pc = "returned"
    /\ flt.workers = 2
    /\ Len(flt.filtered) = 11

=============================================================================
